---------------------------- MODULE Spec2Model ----------------------------
(***************************************************************************)
(* TubeTimeout: the usage tracker (src/usage), the packet filter           *)
(* (src/nfq), the group manager (src/group) and the traffic monitor        *)
(* (src/monitor) as one state machine.                                     *)
(*                                                                         *)
(* Time is an integer count of minutes since Go's zero time                *)
(* (0001-01-01 00:00 UTC, a Monday); a time.Duration is a count of         *)
(* minutes.  The zero time.Time{} is 0.                                    *)
(***************************************************************************)
EXTENDS Integers, Sequences, FiniteSets, TLC

VARIABLES
    now,                \* the wall clock read by nowFunc / time.Now
    cfgTrackerDefaults, \* Tracker.cfgTrackerDefaults (= config.AppCfg.TrackerConfig)
    cfgGroups,          \* Tracker.cfgGroups: group -> TrackerConfig
    devices,            \* Tracker.devices: group -> deviceData
    samplesFile,        \* samples.json on disk
    cfgFile,            \* usage-tracker-config.yaml on disk
    last,               \* the last operation and what it returned
    ticks,              \* how often the clock has advanced
    sourceIpGroups,     \* Manager.sourceIpGroups: ip -> groups
    destIpGroups,       \* Manager.destIpGroups: ip -> groups
    managerModeMatchAllSourceIps, \* the package flag scanNetwork sets
    ipMACs,             \* TrafficMap.ipMACs: ip -> MAC
    trafficMap,         \* TrafficMap.trafficMap: (group, MAC) -> trafficStats
    filterCfg,          \* config.AppCfg.FilterConfig
    pkt,                \* the last packet handled, its verdict and its delay
    packets,            \* how many packets have been handled
    history,            \* per monitor key: when it was made, the bytes of each minute
    rules,              \* nft.Rules: localIPs and remoteIPs
    kernel,             \* the kernel: the table, its two ip sets, whether it takes batches
    proc,               \* main: its context, queue handles, cleanup and the packets queued
    watcher,            \* NetWatcher: the group-macs file, nw.sourceIpGroups, the last scan
    domainWatcher,      \* DomainWatcher: destIpDomains, destIpGroups, what was last resolved
    server,             \* dhcp.Server: its config, its worker's channel, the interface, dnsmasq
    window,             \* what calculateWindow returned
    disk,               \* the persisted files, their temp files, the write in progress
    calls               \* the calls in progress on the tracker and the locks they hold

trackerVars == <<cfgTrackerDefaults, cfgGroups, devices, samplesFile, cfgFile, last>>
netVars == <<sourceIpGroups, destIpGroups, managerModeMatchAllSourceIps, ipMACs,
             trafficMap, filterCfg, pkt, packets, history, rules, kernel, proc,
             watcher, domainWatcher, server>>
vars == <<now, ticks, trackerVars, netVars, window, disk, calls>>

----------------------------------------------------------------------------
(* Durations. *)
Minute == 1
Hour == 60 * Minute
Day == 24 * Hour
Week == 7 * Day

(* models.UsageTrackerMode *)
ModeMonitor == 0
ModeAllow == 1
ModeBlock == 2

(* Bounds of the model. *)
MaxTicks == 3
MaxPackets == 2

(* A models.Group, and every name built with the separator "/", is the     *)
(* sequence of its "/"-free parts: the group G is <<"G">>, the match-all   *)
(* group "10.0.0.2/G" is <<"10.0.0.2", "G">>.                              *)
GroupG == <<"G">>
GroupH == <<"H">>
Groups == {GroupG, GroupH}

----------------------------------------------------------------------------
(* Go integer arithmetic: / truncates toward zero, % takes the sign of     *)
(* the dividend.                                                           *)
GoDiv(a, b) == IF a >= 0 THEN a \div b ELSE -((-a) \div b)
GoMod(a, b) == a - b * GoDiv(a, b)

(* time.Time.Truncate(d): round down to a multiple of d since the zero     *)
(* time; d <= 0 returns the time unchanged.                                *)
Truncate(t, d) == IF d <= 0 THEN t ELSE t - (t % d)

(* time.Time.Weekday(): Sunday = 0 ... Saturday = 6; the zero time is a    *)
(* Monday.                                                                 *)
Weekday(t) == ((t \div Day) + 1) % 7

getSampleSize(cfg) == GoDiv(cfg.Retention, cfg.Granularity)

(* calculateWindow: "if now.Before(lastWindowStart)" rewinds the start by  *)
(* one period; the pair returned is (lastWindowStart, nextWindowStart).    *)
rewindIfFuture(t, first, rewound) == IF t < first THEN rewound ELSE first
windowPair(lastWindowStart, period, g) ==
    [last |-> lastWindowStart, next |-> Truncate(lastWindowStart + period, g)]

weeklyFirst(config, t) ==
    Truncate(Truncate(t, 7 * Day) + (config.StartDayInt - Weekday(t)) * Day
             + config.StartDuration, config.Granularity)
weeklyWindow(config, t, first) ==
    windowPair(rewindIfFuture(t, first, Truncate(first - 7 * Day, config.Granularity)),
               7 * Day, config.Granularity)

dailyWindow(config, t, first) ==
    windowPair(rewindIfFuture(t, first, Truncate(first - Day, config.Granularity)),
               Day, config.Granularity)

subDailyWindow(config, t, baseWindowStart) ==
    windowPair(rewindIfFuture(t,
                   Truncate(baseWindowStart + config.StartDuration, config.Granularity),
                   Truncate((baseWindowStart - config.Retention) + config.StartDuration,
                            config.Granularity)),
               config.Retention, config.Granularity)

(* deviceData.calculateWindow: the start of the last and of the next window *)
calculateWindow(config, t) ==
    IF config.Retention >= 7 * Day
    THEN weeklyWindow(config, t, weeklyFirst(config, t))
    ELSE IF config.Retention >= Day
    THEN dailyWindow(config, t, Truncate(t, Day) + config.StartDuration)
    ELSE subDailyWindow(config, t, Truncate(t, config.Retention))

(* deviceData.getIndex *)
positiveModulo(elapsed, size) == GoMod(GoMod(elapsed, size) + size, size)
getIndex(config, t, bufferStart) ==
    positiveModulo(GoDiv(t - bufferStart, config.Granularity), config.SampleSize)

(* deviceData.syncWindow: samples is the set of indices that hold true *)
windowElapsed(dd, t) == GoDiv(t - dd.windowStartTime, dd.config.Granularity)
syncWindow(dd, t) ==
    IF windowElapsed(dd, t) >= dd.config.SampleSize \/ windowElapsed(dd, t) < 0
    THEN [dd EXCEPT !.samples = {},
                    !.windowStartTime = calculateWindow(dd.config, t).last]
    ELSE dd

(* newDeviceData: it adjusts the config it is handed (a pointer) and       *)
(* builds the device from a copy of the adjusted config.                   *)
clampRetention(cfg) ==
    IF cfg.Retention > 7 * Day THEN [cfg EXCEPT !.Retention = 7 * Day] ELSE cfg
clearStartDay(cfg) ==
    IF cfg.Retention < Day THEN [cfg EXCEPT !.StartDayInt = 0] ELSE cfg
defaultThreshold(cfg) ==
    IF cfg.Threshold = 0 THEN [cfg EXCEPT !.Threshold = 1 * Minute] ELSE cfg
defaultGranularity(cfg) ==
    IF cfg.Granularity = 0 THEN [cfg EXCEPT !.Granularity = 1 * Minute] ELSE cfg
withSampleSize(cfg) == [cfg EXCEPT !.SampleSize = getSampleSize(cfg)]
adjustedConfig(cfg) ==
    withSampleSize(defaultGranularity(defaultThreshold(clearStartDay(clampRetention(cfg)))))
emptyDevice(t, cfg) ==
    [config |-> cfg, samples |-> {}, windowStartTime |-> calculateWindow(cfg, t).last]
newDeviceData(t, cfg) == emptyDevice(t, adjustedConfig(cfg))

(* getDefaultGroupTrackerConfig *)
getDefaultGroupTrackerConfig(t) ==
    [Granularity |-> t.Granularity, Retention |-> t.Retention,
     Threshold |-> t.Threshold, StartDayInt |-> t.StartDayInt,
     StartDuration |-> t.StartDuration, SampleSize |-> getSampleSize(t),
     Mode |-> ModeMonitor, ModeEndTime |-> 0]

----------------------------------------------------------------------------
(* Maps with a growing domain. *)
Put(m, k, v) == [x \in DOMAIN m \cup {k} |-> IF x = k THEN v ELSE m[x]]
Remove(m, k) == [x \in DOMAIN m \ {k} |-> m[x]]
EmptyMap == [x \in {} |-> 0]

(* Tracker.AddSample, "if loaded": a buffer whose sample size or threshold *)
(* differs from the config is rebuilt, keeping Mode and ModeEndTime.       *)
configChanged(dd, cfg) ==
    dd.config.SampleSize # cfg.SampleSize \/ dd.config.Threshold # cfg.Threshold
rebuildLosingMode(dd, cfg, t) ==
    IF configChanged(dd, cfg) THEN newDeviceData(t, cfg) ELSE dd
rebuildIfChanged(dd, cfg, t) ==
    IF dd.config.SampleSize # cfg.SampleSize \/ dd.config.Threshold # cfg.Threshold
    THEN [newDeviceData(t, cfg) EXCEPT !.config.Mode = dd.config.Mode,
                                       !.config.ModeEndTime = dd.config.ModeEndTime]
    ELSE dd
updateStart(dd, cfg) ==
    IF cfg.StartDuration # dd.config.StartDuration \/ cfg.StartDayInt # dd.config.StartDayInt
    THEN [dd EXCEPT !.config.StartDuration = cfg.StartDuration,
                    !.config.StartDayInt = cfg.StartDayInt]
    ELSE dd
(* "if active && dd.config.Mode == ModeMonitor": sync, then mark the bucket *)
markSeen(dd, t) ==
    [dd EXCEPT !.samples = @ \cup {getIndex(dd.config, t, dd.windowStartTime)}]
recordSample(dd, active, t) ==
    IF active /\ dd.config.Mode = ModeMonitor THEN markSeen(syncWindow(dd, t), t) ELSE dd
(* "Reset the mode": an expired Allow or Block goes back to Monitor *)
resetExpiredAllow(dd, t) ==
    IF dd.config.Mode = ModeAllow /\ dd.config.ModeEndTime < t
    THEN [dd EXCEPT !.config.Mode = ModeMonitor]
    ELSE dd
resetExpiredMode(dd, t) ==
    IF dd.config.Mode \in {ModeAllow, ModeBlock} /\ dd.config.ModeEndTime < t
    THEN [dd EXCEPT !.config.Mode = ModeMonitor]
    ELSE dd

groupConfig(cg, id) ==
    adjustedConfig(IF id \in DOMAIN cg THEN cg[id]
                   ELSE getDefaultGroupTrackerConfig(cfgTrackerDefaults))
loadOrStore(devs, id, cfg, t) ==
    IF id \in DOMAIN devs
    THEN updateStart(rebuildIfChanged(devs[id], cfg, t), cfg)
    ELSE emptyDevice(t, cfg)
addSampleDevice(devs, id, cfg, active, t) ==
    resetExpiredMode(recordSample(loadOrStore(devs, id, cfg, t), active, t), t)

(* The mode AddSample finds the group in: that of its device, or that of   *)
(* the config a new device is built from.                                  *)
modeOf(cg, devs, id) ==
    IF id \in DOMAIN devs THEN devs[id].config.Mode ELSE groupConfig(cg, id).Mode

(* Whether AddSample finds a buffer built with another sample size or     *)
(* threshold than the group's config now has.                              *)
needsRebuild(cg, devs, id) ==
    id \in DOMAIN devs /\ configChanged(devs[id], groupConfig(cg, id))

(* Tracker.AddSample, on the pair tr = [cfgGroups, devices]. *)
AddSample(tr, id, active, t) ==
    [cfgGroups |-> Put(tr.cfgGroups, id, groupConfig(tr.cfgGroups, id)),
     devices   |-> Put(tr.devices, id,
                       addSampleDevice(tr.devices, id, groupConfig(tr.cfgGroups, id),
                                       active, t))]

(* The number of true samples and the comparison HasExceededThreshold ends with. *)
countTrue(dd) == Cardinality(dd.samples)
overThresholdStrict(dd) == countTrue(dd) * dd.config.Granularity > dd.config.Threshold
overThreshold(dd) == countTrue(dd) * dd.config.Granularity >= dd.config.Threshold

(* Tracker.HasExceededThreshold: the value returned and the devices it leaves. *)
countSynced(devs, id, t) ==
    [ret |-> overThreshold(syncWindow(devs[id], t)),
     devices |-> [devs EXCEPT ![id] = syncWindow(devs[id], t)]]
HasExceededThreshold(devs, id, t) ==
    IF id \notin DOMAIN devs
    THEN [ret |-> FALSE, devices |-> devs]
    ELSE IF devs[id].config.Mode = ModeAllow /\ t < devs[id].config.ModeEndTime
    THEN [ret |-> FALSE, devices |-> devs]
    ELSE IF devs[id].config.Mode = ModeBlock /\ t < devs[id].config.ModeEndTime
    THEN [ret |-> TRUE, devices |-> devs]
    ELSE countSynced(devs, id, t)

(* validateGroupTrackerConfig, for one entry of the map *)
validGranularity(v) == [v EXCEPT !.Granularity = cfgTrackerDefaults.Granularity]
validRetention(v) ==
    IF v.Retention = 0 THEN [v EXCEPT !.Retention = cfgTrackerDefaults.Retention] ELSE v
validThreshold(v) == IF v.Threshold < 0 THEN [v EXCEPT !.Threshold = 0] ELSE v
validStartDay(v) ==
    IF v.StartDayInt = 0 THEN [v EXCEPT !.StartDayInt = cfgTrackerDefaults.StartDayInt] ELSE v
validStartDuration(v) ==
    IF v.StartDuration = 0
    THEN [v EXCEPT !.StartDuration = cfgTrackerDefaults.StartDuration] ELSE v
(* "if v.ModeEndTime.Before(time.Now().UTC())": this time.Now() is read    *)
(* after the nowFunc() SetMode added its duration to, so a ModeEndTime of  *)
(* the same minute (a duration of 0) is already before it.                 *)
validMode(v, t) ==
    IF v.ModeEndTime <= t THEN [v EXCEPT !.Mode = ModeMonitor, !.ModeEndTime = 0] ELSE v
validateEntry(v, t) ==
    withSampleSize(validMode(validStartDuration(validStartDay(validThreshold(
        validRetention(validGranularity(v))))), t))

validateGroupTrackerConfig(m, t) == [g \in DOMAIN m |-> validateEntry(m[g], t)]

(* yaml.Marshal of the map: Granularity carries the tag yaml:"-" and is    *)
(* not written, so a config read back holds the zero Granularity.          *)
yamlMarshal(m) == [g \in DOMAIN m |-> [m[g] EXCEPT !.Granularity = 0]]

NoFile == [exists |-> FALSE, data |-> EmptyMap]
File(d) == [exists |-> TRUE, data |-> d]

(* encoding/json of a time.Time is its RFC 3339 text, the date and the     *)
(* time of day; of a *TrackerConfig the object of its exported fields      *)
(* (the yaml tags do not apply), or null for a nil pointer.                *)
jsonTime(t) == [date |-> t \div Day, clock |-> t % Day]
parseTime(j) == j.date * Day + j.clock
jsonConfig(c) == [c EXCEPT !.ModeEndTime = jsonTime(c.ModeEndTime)]
parseConfig(j) == [j EXCEPT !.ModeEndTime = parseTime(j.ModeEndTime)]
null == <<>>

(* A save that writes every config as that of a tracker in monitor mode. *)
saveSamplesInMonitorMode(devs) ==
    File([g \in DOMAIN devs |->
            [config |-> <<jsonConfig([devs[g].config EXCEPT !.Mode = ModeMonitor,
                                                            !.ModeEndTime = 0])>>,
             samples |-> devs[g].samples,
             windowStartTime |-> jsonTime(devs[g].windowStartTime)]])

(* saveSamples: json.Marshal of the map of deviceDataDTO (config, samples, *)
(* windowStartTime).  loadSamples: json.Unmarshal of it; an entry whose    *)
(* config is null gets getDefaultGroupTrackerConfig of the global          *)
(* config.AppCfg.TrackerConfig.                                            *)
saveSamples(devs) ==
    File([g \in DOMAIN devs |->
            [config |-> <<jsonConfig(devs[g].config)>>,
             samples |-> devs[g].samples,
             windowStartTime |-> jsonTime(devs[g].windowStartTime)]])
loadSamples(f) ==
    [g \in DOMAIN f.data |->
        [config |-> IF f.data[g].config = null
                    THEN getDefaultGroupTrackerConfig(cfgTrackerDefaults)
                    ELSE parseConfig(f.data[g].config[1]),
         samples |-> f.data[g].samples,
         windowStartTime |-> parseTime(f.data[g].windowStartTime)]]

(* What an operation leaves in last: its name and arguments, what it      *)
(* returned, what it found (AddSample: the mode of the group; an update of *)
(* a kernel set: the elements the set held), and whether it rebuilt the    *)
(* group's buffer.                                                         *)
OpOn(op, id, active, ret, err, was) ==
    [op |-> op, id |-> id, active |-> active, ret |-> ret, err |-> err, was |-> was,
     rebuilt |-> FALSE]
Op(op, id, active, ret, err) == OpOn(op, id, active, ret, err, ModeMonitor)

----------------------------------------------------------------------------
(* The group manager (src/group/manager.go).  With the match-all flag off *)
(* a pair is known when the source ip has groups and the destination ip    *)
(* has groups, and the groups returned are those of the source; with the   *)
(* flag on it is known when the destination ip has groups, and each of     *)
(* them is returned under the name "<srcIp>/<group>".                      *)
isSrcIpGroupKnown(src, ip) == ip \in DOMAIN src
isDstIpGroupKnown(dst, ip) == ip \in DOMAIN dst
getMetaSrcIpDestGroup(srcIp, dstGroup) == <<srcIp>> \o dstGroup
metaGroups(srcIp, dstGroups) ==
    [i \in 1..Len(dstGroups) |-> getMetaSrcIpDestGroup(srcIp, dstGroups[i])]
knownToSourceOnly(matchAll, src, dst, srcIp, dstIp) ==
    IF ~isSrcIpGroupKnown(src, srcIp)
    THEN [groups |-> <<>>, ok |-> FALSE]
    ELSE [groups |-> src[srcIp], ok |-> TRUE]
destGroupsInMatchAll(matchAll, src, dst, srcIp, dstIp) ==
    IF matchAll
    THEN IF isDstIpGroupKnown(dst, dstIp)
         THEN [groups |-> dst[dstIp], ok |-> TRUE]
         ELSE [groups |-> <<>>, ok |-> FALSE]
    ELSE IF ~isSrcIpGroupKnown(src, srcIp) \/ ~isDstIpGroupKnown(dst, dstIp)
    THEN [groups |-> <<>>, ok |-> FALSE]
    ELSE [groups |-> src[srcIp], ok |-> TRUE]
IsSrcDestIpKnown(matchAll, src, dst, srcIp, dstIp) ==
    IF matchAll
    THEN IF isDstIpGroupKnown(dst, dstIp)
         THEN [groups |-> metaGroups(srcIp, dst[dstIp]), ok |-> TRUE]
         ELSE [groups |-> <<>>, ok |-> FALSE]
    ELSE IF ~isSrcIpGroupKnown(src, srcIp) \/ ~isDstIpGroupKnown(dst, dstIp)
    THEN [groups |-> <<>>, ok |-> FALSE]
    ELSE [groups |-> src[srcIp], ok |-> TRUE]

----------------------------------------------------------------------------
(* The traffic monitor (src/monitor).  Of a trafficStats the model keeps   *)
(* what countTraffic and isActive read back: the rolling counts and        *)
(* packet-length totals, lastMinuteIdx, isLastMinuteActive and             *)
(* lastActiveTimeUTC.                                                      *)
Ingress == "in"
Egress == "out"
Directions == {Ingress, Egress}

rollingWindowSize == 5
EnableThresholdLogic == FALSE
ThresholdIngressEgressKB == 0

newTrafficStats(t) ==
    [rollingCounts         |-> [d \in Directions |-> [i \in 0..(rollingWindowSize - 1) |-> 0]],
     rollingPacketLenTotal |-> [d \in Directions |-> [i \in 0..(rollingWindowSize - 1) |-> 0]],
     lastMinuteIdx         |-> [d \in Directions |-> 0],
     isLastMinuteActive    |-> TRUE,
     lastActiveTimeUTC     |-> t]

(* time.Time.Minute(): the minute of the hour *)
MinuteOfHour(t) == (t \div Minute) % 60

getLastMinuteIdx(currentIndex, moduloSize) ==
    IF currentIndex = 0 THEN moduloSize - 1 ELSE currentIndex - 1

isActive(a, lastMinuteIndex) ==
    IF EnableThresholdLogic
    THEN /\ a.rollingPacketLenTotal[Ingress][lastMinuteIndex] >= ThresholdIngressEgressKB
         /\ a.rollingPacketLenTotal[Ingress][lastMinuteIndex]
                > a.rollingPacketLenTotal[Egress][lastMinuteIndex]
    ELSE \/ a.rollingPacketLenTotal[Ingress][lastMinuteIndex] > 0
         \/ a.rollingPacketLenTotal[Egress][lastMinuteIndex] > 0

(* countTraffic, "if we have moved to the next minute" *)
movedToNewMinute(a, dir, cur) ==
    cur # (a.lastMinuteIdx[dir] + 1) % rollingWindowSize
rollMinute(a, dir, cur, t) ==
    [a EXCEPT !.isLastMinuteActive = isActive(a, a.lastMinuteIdx[dir]),
              !.lastActiveTimeUTC = IF isActive(a, a.lastMinuteIdx[dir])
                                    THEN Truncate(t, Minute) ELSE @,
              !.rollingCounts[dir][cur] = 0,
              !.rollingPacketLenTotal[dir][cur] = 0,
              !.lastMinuteIdx[dir] = getLastMinuteIdx(cur, rollingWindowSize)]
addPacket(a, dir, cur, count, packetLen) ==
    [a EXCEPT !.rollingCounts[dir][cur] = @ + count,
              !.rollingPacketLenTotal[dir][cur] = @ + packetLen]
(* trafficStats.countTraffic: the stats it leaves; it returns their        *)
(* isLastMinuteActive.                                                     *)
countTraffic(a, count, packetLen, dir, t) ==
    addPacket(IF movedToNewMinute(a, dir, MinuteOfHour(t) % rollingWindowSize)
              THEN rollMinute(a, dir, MinuteOfHour(t) % rollingWindowSize, t)
              ELSE a,
              dir, MinuteOfHour(t) % rollingWindowSize, count, packetLen)

(* "group/mac"; the MAC read back from a key is its second part. *)
getTrafficMapKey(group, mac) == group \o <<mac>>
getTrafficMapMACFromKey(key) == key[2]
loadOrStoreStats(tm, key, t) == IF key \in DOMAIN tm THEN tm[key] ELSE newTrafficStats(t)
countedStats(tm, key, dir, count, packetLen, t) ==
    countTraffic(loadOrStoreStats(tm, key, t), count, packetLen, dir, t)
(* TrafficMap.CountTraffic: an ip without a MAC counts nothing and is      *)
(* reported active.                                                        *)
CountTraffic(tm, macs, group, ip, dir, count, packetLen, t) ==
    IF ip \notin DOMAIN macs
    THEN [ret |-> TRUE, trafficMap |-> tm]
    ELSE LET a == countedStats(tm, getTrafficMapKey(group, macs[ip]),
                               dir, count, packetLen, t)
         IN  [ret |-> a.isLastMinuteActive,
              trafficMap |-> Put(tm, getTrafficMapKey(group, macs[ip]), a)]

(* TrafficMap.UpdateSourceIpMACs: the new ip -> MAC data replaces the old, *)
(* and, unless it has as many entries as the traffic map, every key whose  *)
(* MAC (as read back from the key) is not in the new data and whose        *)
(* lastActiveTimeUTC is before now - PurgeStatsAfterDuration is deleted.   *)
PurgeStatsAfterDuration == 168 * Hour
trafficMapLen(tm) == Cardinality(DOMAIN tm)
macExists(key, newData) ==
    \E ip \in DOMAIN newData : getTrafficMapMACFromKey(key) = newData[ip]
isOld(a, t) == a.lastActiveTimeUTC < t - PurgeStatsAfterDuration
purged(tm, newData, t) ==
    IF Cardinality(DOMAIN newData) # trafficMapLen(tm)
    THEN [k \in {x \in DOMAIN tm : macExists(x, newData) \/ ~isOld(tm[x], t)} |-> tm[k]]
    ELSE tm
UpdateSourceIpMACs(tm, newData, t) ==
    [ipMACs |-> newData, trafficMap |-> purged(tm, newData, t)]

----------------------------------------------------------------------------
(* The packet filter (src/nfq/filter.go).  Percentages are in hundredths:  *)
(* PacketDropPercentage 0.40 is 40, and a rand.Float32() in [0, 1) is a    *)
(* draw in 0..99.  Delays are in milliseconds.                             *)
NfAccept == "NfAccept"
NfDrop == "NfDrop"

(* The decision for one group whose threshold is exceeded. *)
dropUDPOnly(u, proto, cfg) == proto = "UDP" /\ cfg.PacketDropUDP
shouldDrop(u, proto, cfg) ==
    u < cfg.PacketDropPercentage \/ (proto = "UDP" /\ cfg.PacketDropUDP)
shouldDelay(u, cfg) == cfg.PacketDelayMs > 0 /\ u < cfg.PacketDelayPercentage

(* ApplyJitter: r is (rand.Float64()*2 - 1) in hundredths, -100..99; the   *)
(* conversion to a Duration truncates toward zero.                         *)
ApplyJitter(baseDelayMs, jitterRangeMs, r) ==
    IF baseDelayMs + GoDiv(r * jitterRangeMs, 100) < 0
    THEN 0
    ELSE baseDelayMs + GoDiv(r * jitterRangeMs, 100)

(* getPacketIPs fails on a payload shorter than an IPv4 header. *)
payloadTooShort(p) == p.len < 20

(* Egress: the packet's source is the local ip; Ingress: reversed. *)
srcIpOf(p) == IF p.direction = Egress THEN p.src ELSE p.dst
dstIpOf(p) == IF p.direction = Egress THEN p.dst ELSE p.src

(* The handler's progress through "for _, grp := range groups": the        *)
(* monitor and the tracker as it leaves them, the verdict so far, the      *)
(* time slept so far and the decision logged for each group.               *)
handlerStart(tm, cg, devs) ==
    [trafficMap |-> tm, cfgGroups |-> cg, devices |-> devs,
     active |-> FALSE, exceeded |-> FALSE,
     verdict |-> NfAccept, slept |-> 0, sleeps |-> 0, decisions |-> <<>>]

withCount(st, grp, p, t) ==
    LET c == CountTraffic(st.trafficMap, ipMACs, grp, srcIpOf(p), p.direction, 1, p.len, t)
    IN  [st EXCEPT !.active = c.ret, !.trafficMap = c.trafficMap]
withSample(st, grp, t) ==
    LET a == AddSample([cfgGroups |-> st.cfgGroups, devices |-> st.devices],
                       grp, st.active, t)
    IN  [st EXCEPT !.cfgGroups = a.cfgGroups, !.devices = a.devices]
withThreshold(st, grp, t) ==
    LET h == HasExceededThreshold(st.devices, grp, t)
    IN  [st EXCEPT !.exceeded = h.ret, !.devices = h.devices]
logged(st, grp, decision) ==
    [st EXCEPT !.decisions = Append(@, [group |-> grp, active |-> st.active,
                                        exceeded |-> st.exceeded, decision |-> decision])]
decide(st, grp, d, proto, cfg) ==
    IF ~st.exceeded
    THEN logged(st, grp, "accept")
    ELSE IF shouldDrop(d.drop, proto, cfg)
    THEN logged([st EXCEPT !.verdict = NfDrop], grp, "drop")
    ELSE IF shouldDelay(d.delay, cfg)
    THEN logged([st EXCEPT !.slept = @ + ApplyJitter(cfg.PacketDelayMs,
                                                     cfg.PacketJitterMs, d.jitter),
                           !.sleeps = @ + 1], grp, "delay")
    ELSE logged(st, grp, "accept")
handleGroup(st, grp, p, d, cfg, t) ==
    decide(withThreshold(withSample(withCount(st, grp, p, t), grp, t), grp, t),
           grp, d, p.proto, cfg)

RECURSIVE handleGroups(_, _, _, _, _, _, _)
handleGroups(st, groups, i, p, draws, cfg, t) ==
    IF i > Len(groups)
    THEN st
    ELSE handleGroups(handleGroup(st, groups[i], p, draws[i], cfg, t),
                      groups, i + 1, p, draws, cfg, t)

(* fnPacketHandler, up to nf.SetVerdict(id, verdict). *)
fnPacketHandler(p, draws, cfg, t) ==
    IF payloadTooShort(p)
    THEN handlerStart(trafficMap, cfgGroups, devices)
    ELSE handleGroups(handlerStart(trafficMap, cfgGroups, devices),
                      IsSrcDestIpKnown(managerModeMatchAllSourceIps, sourceIpGroups,
                                       destIpGroups, srcIpOf(p), dstIpOf(p)).groups,
                      1, p, draws, cfg, t)

(* What the handler leaves in pkt. *)
Handled(p, st) ==
    [handled |-> TRUE, packet |-> p, verdict |-> st.verdict, slept |-> st.slept,
     sleeps |-> st.sleeps, decisions |-> st.decisions]

----------------------------------------------------------------------------
(* The nftables rules (src/nft/rules.go).  An address is a string; To4 is  *)
(* net.ParseIP(k).To4(), nil for anything that is not an IPv4 address.     *)
(* The kernel holds the table with its queue rules and the two ip sets,    *)
(* and takes a flushed batch as a whole or not at all.                     *)
IPv6Addrs == {"fe80::1"}
To4(ip) == IF ip \in IPv6Addrs THEN "nil" ELSE ip
setElements(newData) == {To4(k) : k \in {x \in DOMAIN newData : To4(x) # "nil"}}

NewNFTRules ==
    [rules  |-> [localIPs |-> {}, remoteIPs |-> {}],
     kernel |-> [table |-> TRUE, setLocal |-> {}, setRemote |-> {}, healthy |-> TRUE]]

(* updateIpSets: the elements read from each kernel set are deleted, the   *)
(* saved lists are added, and the batch is flushed.                        *)
addWithoutDelete(r, k) ==
    IF r.localIPs = {} \/ r.remoteIPs = {} \/ ~k.healthy
    THEN [kernel |-> k, err |-> TRUE]
    ELSE [kernel |-> [k EXCEPT !.setLocal = @ \cup r.localIPs,
                               !.setRemote = @ \cup r.remoteIPs],
          err |-> FALSE]
updateWhenLocalReady(r, k) ==
    IF r.localIPs = {} \/ ~k.healthy
    THEN [kernel |-> k, err |-> TRUE]
    ELSE [kernel |-> [k EXCEPT !.setLocal = r.localIPs, !.setRemote = r.remoteIPs],
          err |-> FALSE]
updateIpSets(r, k) ==
    IF r.localIPs = {}
    THEN [kernel |-> k, err |-> TRUE]
    ELSE IF r.remoteIPs = {}
    THEN [kernel |-> k, err |-> TRUE]
    ELSE IF ~k.healthy
    THEN [kernel |-> k, err |-> TRUE]
    ELSE [kernel |-> [k EXCEPT !.setLocal = (@ \ k.setLocal) \cup r.localIPs,
                               !.setRemote = (@ \ k.setRemote) \cup r.remoteIPs],
          err |-> FALSE]

(* Rules.UpdateDestIpDomains and Rules.UpdateSourceIpGroups: the rules and *)
(* the kernel they leave, and whether updateIpSets returned an error       *)
(* (which they log).                                                       *)
UpdateDestIpDomains(r, k, newData) ==
    [rules |-> [r EXCEPT !.remoteIPs = setElements(newData)]]
    @@ updateIpSets([r EXCEPT !.remoteIPs = setElements(newData)], k)
UpdateSourceIpGroups(r, k, newData) ==
    [rules |-> [r EXCEPT !.localIPs = setElements(newData)]]
    @@ updateIpSets([r EXCEPT !.localIPs = setElements(newData)], k)

----------------------------------------------------------------------------
(* The tracker as a state machine. *)

(* 2024-12-02 00:00 UTC, a Monday: 105603 weeks after the zero time. *)
Epoch == 105603 * Week

StartTimes == {Epoch + 15 * Hour + 12 * Minute,             \* Monday 15:12
               Epoch + 4 * Day + 23 * Hour + 58 * Minute}   \* Friday 23:58

TickSteps == {Minute, Day}

TrackerIds == {GroupG}

Cfg(g, r, th, sday, sdur) ==
    [Granularity |-> g, Retention |-> r, Threshold |-> th, StartDayInt |-> sday,
     StartDuration |-> sdur, SampleSize |-> 0, Mode |-> ModeMonitor, ModeEndTime |-> 0]

(* The TRACKER_* environments the model starts from. *)
TrackerDefaults ==
    { Cfg(1 * Minute, 1 * Hour, 10 * Minute, 0, 0),
      Cfg(1 * Minute, 168 * Hour, 180 * Minute, 5, 0),
      Cfg(1 * Minute, 168 * Hour, 180 * Minute, 1, 10 * Hour),
      Cfg(1 * Minute, 24 * Hour, 10 * Minute, 0, 6 * Hour),
      Cfg(1 * Minute, 10 * Minute, 2 * Minute, 0, 3 * Minute) }

(* A samples file left by an earlier run: group G with the buckets of the  *)
(* nine minutes before t recorded, as far as they lie in t's window; a     *)
(* window that does not hold t is wiped by every sync and keeps none.      *)
recentBuckets(idx) == {i \in (idx - 9)..(idx - 1) : i >= 0}
earlierDevice(dd, t) ==
    IF windowElapsed(dd, t) >= 0 /\ windowElapsed(dd, t) < dd.config.SampleSize
    THEN [dd EXCEPT !.samples = recentBuckets(getIndex(dd.config, t, dd.windowStartTime))]
    ELSE dd
EarlierRun(t, defaults, ids) ==
    saveSamples([g \in ids |->
            earlierDevice(newDeviceData(t, getDefaultGroupTrackerConfig(defaults)), t)])

(* NewTracker: the group config is read from its file (an absent file is   *)
(* created empty), the devices are those of the samples file, if any.      *)
NewTracker(cf, sf) ==
    [cfgFile   |-> IF cf.exists THEN cf ELSE File(EmptyMap),
     cfgGroups |-> IF cf.exists THEN cf.data ELSE EmptyMap,
     devices   |-> IF sf.exists THEN loadSamples(sf) ELSE EmptyMap]

NoOp == Op("NewTracker", <<>>, FALSE, FALSE, FALSE)

(* FilterConfig: the defaults of the environment (drop 0.40, delay 0.90,   *)
(* 100 ms, jitter 50 ms, drop UDP), and the settings PACKET_DROP_PCT=1.0   *)
(* and PACKET_DROP_PCT=0.0 with PACKET_DELAY_PCT=1.0.                      *)
FilterCfg(drop, delay, ms, jitter, udp) ==
    [PacketDropPercentage |-> drop, PacketDelayPercentage |-> delay,
     PacketDelayMs |-> ms, PacketJitterMs |-> jitter, PacketDropUDP |-> udp]
DefaultFilterConfig == FilterCfg(40, 90, 100, 50, TRUE)
FilterConfigs ==
    {DefaultFilterConfig, FilterCfg(100, 90, 100, 50, FALSE), FilterCfg(0, 100, 100, 50, FALSE)}

NoPacket ==
    [handled |-> FALSE, packet |-> <<>>, verdict |-> NfAccept, slept |-> 0,
     sleeps |-> 0, decisions |-> <<>>]
NoWindow == [done |-> FALSE, last |-> 0, next |-> 0]

(* main (src/unnamed/part_009): the context, the two queue handles, the    *)
(* DHCP server, the web server, the goroutine that saves the samples, the  *)
(* cleanup functions still to run, and for each queue the packets the      *)
(* kernel holds for it, the packets its handler has taken, the one it is   *)
(* handling, the verdicts it has set and the panics it has recovered from. *)
Call(f, q) == [f |-> f, q |-> q]
(* A cleanup that closed the queue handles before it removed the rules. *)
closeBeforeClean(webEnabled) ==
    <<Call("dhcpServer.Stop", ""), Call("cancel", ""),
      Call("nf.Close", Egress), Call("nf.Close", Ingress), Call("rules.Clean", "")>>
    \o (IF webEnabled THEN <<Call("s.Shutdown", "")>> ELSE <<>>)
    \o <<Call("exit", "")>>
(* The cleanup functions in the order main appends them, the one of the    *)
(* queues step by step, and the return of main.                            *)
cleanupFuncs(webEnabled) ==
    <<Call("dhcpServer.Stop", ""), Call("cancel", ""), Call("rules.Clean", ""),
      Call("nf.Close", Egress), Call("nf.Close", Ingress)>>
    \o (IF webEnabled THEN <<Call("s.Shutdown", "")>> ELSE <<>>)
    \o <<Call("exit", "")>>
NewProcess ==
    [pc        |-> "running",
     todo      |-> <<>>,
     cancelled |-> FALSE,
     nfq       |-> [d \in Directions |-> "open"],
     dhcp      |-> "running",
     web       |-> "serving",
     saver     |-> "running",
     failure   |-> FALSE,
     pending   |-> [d \in Directions |-> <<>>],
     dequeued  |-> [d \in Directions |-> <<>>],
     cur       |-> [d \in Directions |-> {}],
     verdicts  |-> [d \in Directions |-> <<>>],
     crashed   |-> {},
     recovered |-> 0]

(* NewNetWatcher with the group-macs file as it is found on disk: absent,  *)
(* not readable, not YAML, empty, naming the MACs of one group, or naming  *)
(* one MAC in two groups.  scanned is what the last scan started from, the *)
(* configuration and the ARP output it read, the ips that output listed    *)
(* with a MAC, and which receivers it called.                              *)
GroupMacsFiles == {"missing", "unreadable", "malformed", "empty", "groups", "shared"}
NewNetWatcher ==
    [file |-> "missing", sourceIpGroups |-> EmptyMap,
     scanned |-> [file |-> "none", err |-> "nil", arp |-> [ok |-> FALSE, lines |-> {}],
                  ips |-> {}, matchAll |-> FALSE, groupsSent |-> FALSE,
                  macsSent |-> FALSE]]

(* NewDomainWatcher: nothing resolved yet.  domains is what the resolver   *)
(* returned in the last tick, sent the table the receivers were handed.    *)
NewDomainWatcher ==
    [destIpDomains |-> EmptyMap, destIpGroups |-> EmptyMap,
     destDomainGroups |-> EmptyMap, resolved |-> EmptyMap, sent |-> EmptyMap,
     resolves |-> 0]

(* The DHCP server (src/unnamed/part_007).  NewServer with the config a   *)
(* missing dhcp-config.yaml gives and a service that is not running: the   *)
(* worker is started and restart() has left one signal in its channel.     *)
(* did is what the last reconcile did: the probe it was given, the calls   *)
(* to startDnsmasq (the second is the forced one) and to Stop, the error   *)
(* it returned and the state and flags it started from.                    *)
serviceStateActive == "active"
serviceStateActiveRouterCanBeStopped == "router DHCP server can be stopped"
serviceStateWaitingToStop == "waiting to stop"
serviceStateFailedCheckConfig == "failed to start"
serviceStateInactive == "inactive"
serviceStates ==
    {serviceStateActive, serviceStateActiveRouterCanBeStopped, serviceStateWaitingToStop,
     serviceStateFailedCheckConfig, serviceStateInactive}
newDNSMasqConfig ==
    [ServiceEnabled |-> FALSE, ServiceState |-> "", needsAction |-> TRUE,
     needsRestart |-> TRUE]
Probe(local, router, err) == [local |-> local, router |-> router, err |-> err]
NothingDone ==
    [ran |-> FALSE, probed |-> FALSE, probe |-> Probe(FALSE, FALSE, FALSE),
     starts |-> <<>>, stop |-> "not called", err |-> FALSE, from |-> newDNSMasqConfig]
NewServer ==
    [cfg |-> newDNSMasqConfig, chanWorker |-> 1, senders |-> 0, worker |-> "select",
     staticIP |-> FALSE, dnsmasq |-> "inactive", led |-> "unset",
     dnsMasqServiceDisabledForDebug |-> FALSE, did |-> NothingDone]

(* The persisted files (src/unnamed/part_001, part_003, part_007, part_008 *)
(* and src/dhcp/integration_test.go).  A file is absent or holds a run of  *)
(* blocks; every target path has its temp path, filePath + ".tmp".         *)
Absent == [exists |-> FALSE, blocks |-> <<>>]
Holding(b) == [exists |-> TRUE, blocks |-> b]
defaultGroupMacFilePath == "group-macs.yaml"
defaultGroupTrackerConfigFilePath == "usage-tracker-config.yaml"
configFileDHCPSettings == "dhcp-config.yaml"
SampleFilePath == "samples.json"
configFileDNSMasqService == "/etc/dnsmasq.conf"
PersistedPaths ==
    {defaultGroupMacFilePath, defaultGroupTrackerConfigFilePath, configFileDHCPSettings,
     SampleFilePath, configFileDNSMasqService}
NoWrite == [path |-> "none", data |-> <<>>, old |-> Absent, pc |-> "idle"]
NoStartup == [component |-> "none", absent |-> FALSE, createOk |-> FALSE, outcome |-> "none"]
NewDisk ==
    [target |-> [p \in PersistedPaths |-> Absent],
     temp |-> [p \in PersistedPaths |-> Absent],
     writer |-> NoWrite, writes |-> 0, got |-> NoStartup]
(* The calls in progress on the tracker for one group: where each caller  *)
(* stands, who holds Tracker.mu, who holds the mutex of each deviceData     *)
(* made for the group, which deviceData t.devices holds and which one each  *)
(* caller has loaded, the mode in each deviceData and in t.cfgGroups, and   *)
(* whether t.cfgGroups asks for another sample size or threshold than the   *)
(* deviceData in t.devices has.  At first no call is in progress, no mutex  *)
(* is held and the group has the deviceData an earlier AddSample stored.    *)
MaxRebuilds == 2
Callers == {"AddSample", "SetMode", "SetConfig"}
NoCalls ==
    [pc |-> [t \in Callers |-> "idle"],
     mu |-> "free",
     ddmu |-> [i \in 0..MaxRebuilds |-> "free"],
     stored |-> 0,
     made |-> 0,
     dd |-> [t \in Callers |-> 0],
     mode |-> [i \in 0..MaxRebuilds |-> ModeMonitor],
     cfgMode |-> ModeMonitor,
     changed |-> FALSE,
     arg |-> ModeMonitor,
     set |-> [done |-> FALSE, mode |-> ModeMonitor]]

(* Before any callback has run: a manager and a monitor that know nothing. *)
InitNet ==
    /\ sourceIpGroups = EmptyMap
    /\ destIpGroups = EmptyMap
    /\ managerModeMatchAllSourceIps = FALSE
    /\ ipMACs = EmptyMap
    /\ trafficMap = EmptyMap
    /\ filterCfg = DefaultFilterConfig
    /\ pkt = NoPacket
    /\ packets = 0
    /\ history = EmptyMap
    /\ rules = NewNFTRules.rules
    /\ kernel = NewNFTRules.kernel
    /\ proc = NewProcess
    /\ watcher = NewNetWatcher
    /\ domainWatcher = NewDomainWatcher
    /\ server = NewServer

InitTracker ==
    /\ now \in StartTimes
    /\ ticks = 0
    /\ cfgTrackerDefaults \in TrackerDefaults
    /\ samplesFile \in {NoFile, EarlierRun(now, cfgTrackerDefaults, TrackerIds)}
    /\ cfgFile = NewTracker(NoFile, samplesFile).cfgFile
    /\ cfgGroups = NewTracker(NoFile, samplesFile).cfgGroups
    /\ devices = NewTracker(NoFile, samplesFile).devices
    /\ last = NoOp
    /\ InitNet
    /\ window = NoWindow
    /\ disk = NewDisk
    /\ calls = NoCalls

Tick ==
    /\ ticks < MaxTicks
    /\ \E d \in TickSteps : now' = now + d
    /\ ticks' = ticks + 1
    /\ last' = Op("Tick", <<>>, FALSE, FALSE, FALSE)
    /\ UNCHANGED <<cfgTrackerDefaults, cfgGroups, devices, samplesFile, cfgFile,
                   netVars, window, disk, calls>>

DoAddSample(id, active) ==
    LET r == AddSample([cfgGroups |-> cfgGroups, devices |-> devices], id, active, now)
    IN  /\ cfgGroups' = r.cfgGroups
        /\ devices' = r.devices
        /\ last' = [OpOn("AddSample", id, active, FALSE, FALSE,
                          modeOf(cfgGroups, devices, id))
                        EXCEPT !.rebuilt = needsRebuild(cfgGroups, devices, id)]
        /\ UNCHANGED <<now, ticks, cfgTrackerDefaults, samplesFile, cfgFile,
                       netVars, window, disk, calls>>

DoHasExceededThreshold(id) ==
    LET r == HasExceededThreshold(devices, id, now)
    IN  /\ devices' = r.devices
        /\ last' = Op("HasExceededThreshold", id, FALSE, r.ret, FALSE)
        /\ UNCHANGED <<now, ticks, cfgTrackerDefaults, cfgGroups, samplesFile, cfgFile,
                       netVars, window, disk, calls>>

(* Tracker.SetMode with the SetConfig it ends in; writeOk is whether the   *)
(* write of the config file succeeds.                                      *)
withMode(cfg, mode, until) == [cfg EXCEPT !.Mode = mode, !.ModeEndTime = until]
setConfig(m, writeOk) ==
    [cfgGroups |-> m,
     cfgFile |-> IF writeOk THEN File(yamlMarshal(m)) ELSE cfgFile,
     err |-> ~writeOk]
SetMode(id, d, mode, writeOk) ==
    IF id \notin DOMAIN devices
    THEN [devices |-> devices, cfgGroups |-> cfgGroups, cfgFile |-> cfgFile, err |-> TRUE]
    ELSE IF id \notin DOMAIN cfgGroups
    THEN [devices |-> [devices EXCEPT ![id].config = withMode(@, mode, now + d)],
          cfgGroups |-> cfgGroups, cfgFile |-> cfgFile, err |-> TRUE]
    ELSE [devices |-> [devices EXCEPT ![id].config = withMode(@, mode, now + d)]]
         @@ setConfig(validateGroupTrackerConfig(
                          [cfgGroups EXCEPT ![id] = withMode(@, mode, now + d)], now),
                      writeOk)

(* Tracker.SetConfig: an empty map fails validation and changes nothing. *)
SetConfig(m, writeOk) ==
    IF DOMAIN m = {}
    THEN [cfgGroups |-> cfgGroups, cfgFile |-> cfgFile, err |-> TRUE]
    ELSE setConfig(validateGroupTrackerConfig(m, now), writeOk)

(* The web handlers: a pause or block for some minutes, or a resume. *)
SetModeRequests ==
    {[d |-> 2 * Minute, mode |-> ModeAllow], [d |-> 2 * Minute, mode |-> ModeBlock],
     [d |-> 0, mode |-> ModeMonitor]}

DoSetMode(id, rq, writeOk) ==
    LET r == SetMode(id, rq.d, rq.mode, writeOk)
    IN  /\ devices' = r.devices
        /\ cfgGroups' = r.cfgGroups
        /\ cfgFile' = r.cfgFile
        /\ last' = Op("SetMode", id, FALSE, FALSE, r.err)
        /\ UNCHANGED <<now, ticks, cfgTrackerDefaults, samplesFile,
                       netVars, window, disk, calls>>

(* Tracker.Reset *)
DoReset(id) ==
    /\ devices' = Remove(devices, id)
    /\ last' = Op("Reset", id, FALSE, FALSE, FALSE)
    /\ UNCHANGED <<now, ticks, cfgTrackerDefaults, cfgGroups, samplesFile, cfgFile,
                   netVars, window, disk, calls>>

(* One round of saveSamplesPeriodically. *)
SaveSamples ==
    /\ samplesFile' = saveSamples(devices)
    /\ last' = Op("saveSamples", <<>>, FALSE, FALSE, FALSE)
    /\ UNCHANGED <<now, ticks, cfgTrackerDefaults, cfgGroups, devices, cfgFile,
                   netVars, window, disk, calls>>

(* The process ends (a crash or a shutdown) and starts again. *)
Restart ==
    /\ cfgFile' = NewTracker(cfgFile, samplesFile).cfgFile
    /\ cfgGroups' = NewTracker(cfgFile, samplesFile).cfgGroups
    /\ devices' = NewTracker(cfgFile, samplesFile).devices
    /\ last' = NoOp
    /\ UNCHANGED <<now, ticks, cfgTrackerDefaults, samplesFile, netVars, window, disk, calls>>

NextTracker ==
    \/ Tick
    \/ \E id \in TrackerIds, active \in BOOLEAN : DoAddSample(id, active)
    \/ \E id \in TrackerIds : DoHasExceededThreshold(id)
    \/ \E id \in TrackerIds, rq \in SetModeRequests : DoSetMode(id, rq, TRUE)
    \/ \E id \in TrackerIds : DoReset(id)

SpecTracker == InitTracker /\ [][NextTracker]_vars

(* The tracker with the config page: trackerConfigHandler posts a map     *)
(* that holds, for the group, a retention and a threshold and no           *)
(* granularity, sample size or mode.                                       *)
SetConfigRequests ==
    {[g \in TrackerIds |-> Cfg(0, r, th, 0, 0)] :
        r \in {1 * Hour, 2 * Hour}, th \in {5 * Minute, 10 * Minute}}

DoSetConfig(m, writeOk) ==
    LET r == SetConfig(m, writeOk)
    IN  /\ cfgGroups' = r.cfgGroups
        /\ cfgFile' = r.cfgFile
        /\ last' = Op("SetConfig", <<>>, FALSE, FALSE, r.err)
        /\ UNCHANGED <<now, ticks, cfgTrackerDefaults, devices, samplesFile,
                       netVars, window, disk, calls>>

InitConfig ==
    /\ now = Epoch + 15 * Hour + 12 * Minute
    /\ ticks = 0
    /\ cfgTrackerDefaults \in {c \in TrackerDefaults : c.Retention = 1 * Hour}
    /\ samplesFile \in {NoFile, EarlierRun(now, cfgTrackerDefaults, TrackerIds)}
    /\ cfgFile = NewTracker(NoFile, samplesFile).cfgFile
    /\ cfgGroups = NewTracker(NoFile, samplesFile).cfgGroups
    /\ devices = NewTracker(NoFile, samplesFile).devices
    /\ last = NoOp
    /\ InitNet
    /\ window = NoWindow
    /\ disk = NewDisk
    /\ calls = NoCalls

NextConfig ==
    \/ Tick
    \/ \E id \in TrackerIds, active \in BOOLEAN : DoAddSample(id, active)
    \/ \E id \in TrackerIds : DoHasExceededThreshold(id)
    \/ \E id \in TrackerIds, rq \in SetModeRequests : DoSetMode(id, rq, TRUE)
    \/ \E m \in SetConfigRequests : DoSetConfig(m, TRUE)

SpecConfig == InitConfig /\ [][NextConfig]_vars

(* The config page while the disk may refuse the write: SetConfig is     *)
(* called with a posted map or with an empty one, and                     *)
(* FnDefaultSafeWriteViaTemp succeeds or returns an error.                *)
NextSetConfig ==
    \/ Tick
    \/ \E id \in TrackerIds, rq \in SetModeRequests, writeOk \in BOOLEAN :
          DoSetMode(id, rq, writeOk)
    \/ \E m \in SetConfigRequests \cup {EmptyMap}, writeOk \in BOOLEAN :
          DoSetConfig(m, writeOk)

SpecSetConfig == InitConfig /\ [][NextSetConfig]_vars

(* The tracker with its persistence: the periodic save and a restart. *)
InitRestart ==
    /\ now \in StartTimes
    /\ ticks = 0
    /\ cfgTrackerDefaults \in {c \in TrackerDefaults : c.Retention = 1 * Hour}
    /\ samplesFile = NoFile
    /\ cfgFile = NewTracker(NoFile, samplesFile).cfgFile
    /\ cfgGroups = NewTracker(NoFile, samplesFile).cfgGroups
    /\ devices = NewTracker(NoFile, samplesFile).devices
    /\ last = NoOp
    /\ InitNet
    /\ window = NoWindow
    /\ disk = NewDisk
    /\ calls = NoCalls

NextRestart ==
    \/ NextTracker
    \/ SaveSamples
    \/ Restart

SpecRestart == InitRestart /\ [][NextRestart]_vars

(* The same, started on the samples file of an earlier version, whose      *)
(* entries carry no config.                                                *)
OlderFormat(f) == [f EXCEPT !.data = [g \in DOMAIN f.data |-> [f.data[g] EXCEPT !.config = null]]]
InitSamples ==
    /\ now = Epoch + 15 * Hour + 12 * Minute
    /\ ticks = 0
    /\ cfgTrackerDefaults \in {c \in TrackerDefaults : c.Retention = 1 * Hour}
    /\ samplesFile \in {NoFile, OlderFormat(EarlierRun(now, cfgTrackerDefaults, TrackerIds))}
    /\ cfgFile = NewTracker(NoFile, samplesFile).cfgFile
    /\ cfgGroups = NewTracker(NoFile, samplesFile).cfgGroups
    /\ devices = NewTracker(NoFile, samplesFile).devices
    /\ last = NoOp
    /\ InitNet
    /\ window = NoWindow
    /\ disk = NewDisk
    /\ calls = NoCalls

NextSamples ==
    \/ Tick
    \/ \E id \in TrackerIds : DoAddSample(id, TRUE)
    \/ \E id \in TrackerIds, rq \in SetModeRequests : DoSetMode(id, rq, TRUE)
    \/ SaveSamples
    \/ Restart

SpecSamples == InitSamples /\ [][NextSamples]_vars

----------------------------------------------------------------------------
(* The filter with the manager, the monitor and the tracker behind it.     *)
(* Device A is in the groups G and H, device B in G; K is an ip of a      *)
(* watched domain; X and U are a device and a remote ip nobody registered. *)
(* The monitor has a MAC for A and none for B.                             *)
Packet(src, dst, direction, proto, len) ==
    [src |-> src, dst |-> dst, direction |-> direction, proto |-> proto, len |-> len]
Packets ==
    { Packet("A", "K", Egress, "TCP", 40),    \* two groups
      Packet("K", "A", Ingress, "TCP", 40),   \* the answer, reversed
      Packet("B", "K", Egress, "UDP", 40),    \* one group, no MAC
      Packet("A", "U", Egress, "TCP", 40),    \* destination not known
      Packet("X", "K", Egress, "TCP", 40),    \* source not known
      Packet("U", "X", Ingress, "UDP", 40),   \* neither known
      Packet("A", "K", Egress, "TCP", 10) }   \* shorter than an IPv4 header

(* The random numbers one group's decision may read: a draw that drops,   *)
(* one that delays with the jitter at its upper end, one that does neither. *)
Draw(u, v, r) == [drop |-> u, delay |-> v, jitter |-> r]
Draws == {Draw(0, 0, 99), Draw(99, 0, 99), Draw(99, 99, 99)}
groupsOf(p) ==
    IsSrcDestIpKnown(managerModeMatchAllSourceIps, sourceIpGroups, destIpGroups,
                     srcIpOf(p), dstIpOf(p)).groups

InitFilter ==
    /\ now = Epoch + 15 * Hour + 12 * Minute
    /\ ticks = 0
    /\ cfgTrackerDefaults \in {c \in TrackerDefaults : c.Retention = 1 * Hour}
    /\ samplesFile \in {NoFile, EarlierRun(now, cfgTrackerDefaults, Groups)}
    /\ cfgFile = NewTracker(NoFile, samplesFile).cfgFile
    /\ cfgGroups = NewTracker(NoFile, samplesFile).cfgGroups
    /\ devices = NewTracker(NoFile, samplesFile).devices
    /\ last = NoOp
    /\ sourceIpGroups =
           [ip \in {"A", "B"} |-> IF ip = "A" THEN <<GroupG, GroupH>> ELSE <<GroupG>>]
    /\ destIpGroups = [ip \in {"K"} |-> <<GroupG>>]
    /\ managerModeMatchAllSourceIps \in BOOLEAN
    /\ managerModeMatchAllSourceIps => samplesFile = NoFile
    /\ ipMACs = [ip \in {"A"} |-> "mA"]
    /\ trafficMap = EmptyMap
    /\ filterCfg \in FilterConfigs
    /\ pkt = NoPacket
    /\ packets = 0
    /\ history = EmptyMap
    /\ rules = NewNFTRules.rules
    /\ kernel = NewNFTRules.kernel
    /\ proc = NewProcess
    /\ watcher = NewNetWatcher
    /\ domainWatcher = NewDomainWatcher
    /\ server = NewServer
    /\ window = NoWindow
    /\ disk = NewDisk
    /\ calls = NoCalls

HandlePacket(p, draws) ==
    LET st == fnPacketHandler(p, draws, filterCfg, now)
    IN  /\ packets < MaxPackets
        /\ trafficMap' = st.trafficMap
        /\ cfgGroups' = st.cfgGroups
        /\ devices' = st.devices
        /\ pkt' = Handled(p, st)
        /\ packets' = packets + 1
        /\ last' = Op("fnPacketHandler", <<>>, FALSE, FALSE, FALSE)
        /\ UNCHANGED <<now, ticks, cfgTrackerDefaults, samplesFile, cfgFile,
                       sourceIpGroups, destIpGroups, managerModeMatchAllSourceIps,
                       ipMACs, filterCfg, history, rules, kernel, proc, watcher,
                       domainWatcher, server, window, disk, calls>>

NextFilter ==
    \/ \E p \in Packets :
          \E draws \in [1..Len(groupsOf(p)) -> Draws] : HandlePacket(p, draws)
    \/ Tick /\ now' = now + Minute
    \/ \E id \in TrackerIds, rq \in SetModeRequests :
          rq.mode = ModeAllow /\ DoSetMode(id, rq, TRUE)

SpecFilter == InitFilter /\ [][NextFilter]_vars

----------------------------------------------------------------------------
(* The traffic monitor on its own: packets of the devices A and B counted  *)
(* for group G, and a clock that moves by a minute or by eight days (more  *)
(* than the purge horizon, and the same minute of the hour again).         *)
MonitorSteps == {Minute, 8 * Day}
MonitorIps == {"A", "B"}
MACOf(ip) == IF ip = "A" THEN "mA" ELSE "mB"
packetLength == 40

(* What the monitor has been told, kept beside it: for each key the minute *)
(* it was made in and the bytes counted in every minute, by direction.     *)
MinuteOf(t) == t \div Minute
NoBytes == [d \in Directions |-> 0]
bytesIn(h, m) == IF m \in DOMAIN h.bytes THEN h.bytes[m] ELSE NoBytes
newHistory(t) == [created |-> MinuteOf(t), bytes |-> EmptyMap]
noted(hist, key, dir, packetLen, t) ==
    LET h == IF key \in DOMAIN hist THEN hist[key] ELSE newHistory(t)
    IN  Put(hist, key,
            [h EXCEPT !.bytes = Put(@, MinuteOf(t),
                                    [bytesIn(h, MinuteOf(t)) EXCEPT ![dir] = @ + packetLen])])

InitMonitor ==
    /\ now = Epoch + 15 * Hour + 12 * Minute
    /\ ticks = 0
    /\ cfgTrackerDefaults \in {c \in TrackerDefaults : c.Retention = 1 * Hour}
    /\ samplesFile = NoFile
    /\ cfgFile = NewTracker(NoFile, samplesFile).cfgFile
    /\ cfgGroups = NewTracker(NoFile, samplesFile).cfgGroups
    /\ devices = NewTracker(NoFile, samplesFile).devices
    /\ last = NoOp
    /\ sourceIpGroups = EmptyMap
    /\ destIpGroups = EmptyMap
    /\ managerModeMatchAllSourceIps = FALSE
    /\ ipMACs = [ip \in MonitorIps |-> MACOf(ip)]
    /\ trafficMap = EmptyMap
    /\ filterCfg = DefaultFilterConfig
    /\ pkt = NoPacket
    /\ packets = 0
    /\ history = EmptyMap
    /\ rules = NewNFTRules.rules
    /\ kernel = NewNFTRules.kernel
    /\ proc = NewProcess
    /\ watcher = NewNetWatcher
    /\ domainWatcher = NewDomainWatcher
    /\ server = NewServer
    /\ window = NoWindow
    /\ disk = NewDisk
    /\ calls = NoCalls

MonitorTick ==
    /\ ticks < MaxTicks
    /\ \E d \in MonitorSteps : now' = now + d
    /\ ticks' = ticks + 1
    /\ last' = Op("Tick", <<>>, FALSE, FALSE, FALSE)
    /\ UNCHANGED <<cfgTrackerDefaults, cfgGroups, devices, samplesFile, cfgFile,
                   netVars, window, disk, calls>>

(* TrafficMap.CountTraffic for one packet; last.id is the key counted     *)
(* under, or <<>> for an ip without a MAC.                                 *)
DoCountTraffic(group, ip, dir) ==
    LET r == CountTraffic(trafficMap, ipMACs, group, ip, dir, 1, packetLength, now)
    IN  /\ packets < MaxPackets
        /\ packets' = packets + 1
        /\ trafficMap' = r.trafficMap
        /\ history' = IF ip \in DOMAIN ipMACs
                      THEN noted(history, getTrafficMapKey(group, ipMACs[ip]), dir,
                                 packetLength, now)
                      ELSE history
        /\ last' = Op("CountTraffic",
                      IF ip \in DOMAIN ipMACs
                      THEN getTrafficMapKey(group, ipMACs[ip]) ELSE <<>>,
                      FALSE, r.ret, FALSE)
        /\ UNCHANGED <<now, ticks, cfgTrackerDefaults, cfgGroups, devices, samplesFile,
                       cfgFile, sourceIpGroups, destIpGroups,
                       managerModeMatchAllSourceIps, ipMACs, filterCfg, pkt, rules, kernel,
                       proc, watcher,
                       domainWatcher, server, window, disk, calls>>

(* The ip -> MAC data a network scan may publish. *)
MACSnapshots == {[ip \in ips |-> MACOf(ip)] : ips \in SUBSET MonitorIps}

DoUpdateSourceIpMACs(newData) ==
    LET r == UpdateSourceIpMACs(trafficMap, newData, now)
    IN  /\ ipMACs' = r.ipMACs
        /\ trafficMap' = r.trafficMap
        /\ history' = [k \in DOMAIN history \cap DOMAIN r.trafficMap |-> history[k]]
        /\ last' = Op("UpdateSourceIpMACs", <<>>, FALSE, FALSE, FALSE)
        /\ UNCHANGED <<now, ticks, cfgTrackerDefaults, cfgGroups, devices, samplesFile,
                       cfgFile, sourceIpGroups, destIpGroups,
                       managerModeMatchAllSourceIps, filterCfg, pkt, packets, rules,
                       kernel, proc, watcher,
                       domainWatcher, server, window, disk, calls>>

NextMonitor ==
    \/ MonitorTick
    \/ \E ip \in MonitorIps, dir \in Directions : DoCountTraffic(GroupG, ip, dir)
    \/ \E newData \in MACSnapshots : DoUpdateSourceIpMACs(newData)

SpecMonitor == InitMonitor /\ [][NextMonitor]_vars

(* The monitor behind a filter in match-all mode: IsSrcDestIpKnown hands   *)
(* the filter the names "<srcIp>/<destGroup>", and CountTraffic is called  *)
(* with them as well as with plain group names.                            *)
MonitorGroups(ip) == {GroupG, getMetaSrcIpDestGroup(ip, GroupG)}
NextMatchAll ==
    \/ MonitorTick
    \/ \E ip \in MonitorIps, dir \in Directions :
          \E group \in MonitorGroups(ip) : DoCountTraffic(group, ip, dir)
    \/ \E newData \in MACSnapshots : DoUpdateSourceIpMACs(newData)

SpecMatchAll == InitMonitor /\ [][NextMatchAll]_vars

----------------------------------------------------------------------------
(* The nftables rules on their own: snapshots of local and of remote       *)
(* addresses arrive in any order, and the kernel may refuse batches for a  *)
(* while.                                                                  *)
LocalAddrs == {"A", "B", "fe80::1"}
RemoteAddrs == {"K", "L"}
SourceSnapshots == {[ip \in ips |-> <<GroupG>>] : ips \in SUBSET LocalAddrs}
DestSnapshots == {[ip \in ips |-> "d"] : ips \in SUBSET RemoteAddrs}

(* Before any update: no snapshot was received and the sets held nothing. *)
NoUpdate == OpOn("NewRules", {}, FALSE, FALSE, FALSE, {})

InitNft ==
    /\ now = Epoch + 15 * Hour + 12 * Minute
    /\ ticks = 0
    /\ cfgTrackerDefaults \in {c \in TrackerDefaults : c.Retention = 1 * Hour}
    /\ samplesFile = NoFile
    /\ cfgFile = NewTracker(NoFile, samplesFile).cfgFile
    /\ cfgGroups = NewTracker(NoFile, samplesFile).cfgGroups
    /\ devices = NewTracker(NoFile, samplesFile).devices
    /\ last = NoUpdate
    /\ InitNet
    /\ window = NoWindow
    /\ disk = NewDisk
    /\ calls = NoCalls

nftFrame ==
    UNCHANGED <<now, ticks, cfgTrackerDefaults, cfgGroups, devices, samplesFile, cfgFile,
                sourceIpGroups, destIpGroups, managerModeMatchAllSourceIps, ipMACs,
                trafficMap, filterCfg, pkt, packets, history, proc, watcher,
                domainWatcher, server, window, disk, calls>>

(* last.id is the set of addresses of the snapshot received, last.was the *)
(* elements the kernel set held.                                           *)
DoUpdateDestIpDomains(newData) ==
    LET r == UpdateDestIpDomains(rules, kernel, newData)
    IN  /\ rules' = r.rules
        /\ kernel' = r.kernel
        /\ last' = OpOn("UpdateDestIpDomains", DOMAIN newData, FALSE, FALSE, r.err,
                        kernel.setRemote)
        /\ nftFrame

DoUpdateSourceIpGroups(newData) ==
    LET r == UpdateSourceIpGroups(rules, kernel, newData)
    IN  /\ rules' = r.rules
        /\ kernel' = r.kernel
        /\ last' = OpOn("UpdateSourceIpGroups", DOMAIN newData, FALSE, FALSE, r.err,
                        kernel.setLocal)
        /\ nftFrame

(* The kernel starts or stops taking batches (netlink errors). *)
KernelFault ==
    /\ kernel' = [kernel EXCEPT !.healthy = ~@]
    /\ last' = OpOn("KernelFault", {}, FALSE, FALSE, FALSE, {})
    /\ UNCHANGED rules
    /\ nftFrame

NextNft ==
    \/ \E newData \in DestSnapshots : DoUpdateDestIpDomains(newData)
    \/ \E newData \in SourceSnapshots : DoUpdateSourceIpGroups(newData)
    \/ KernelFault

SpecNft == InitNft /\ [][NextNft]_vars

----------------------------------------------------------------------------
(* main with its two queues (src/unnamed/part_009, src/nfq/filter.go).     *)
(* Device A is in group G, K is an ip of a watched domain.  The kernel     *)
(* queues a packet for the handle of its direction; the handle's receive   *)
(* loop calls fnPacketHandler for one packet at a time, and the handler    *)
(* sleeps and sets the verdict before it returns.  A signal starts the     *)
(* cleanup functions in the order main appended them.                      *)
MainPackets ==
    {Packet("A", "K", Egress, "TCP", 40), Packet("K", "A", Ingress, "TCP", 40)}
Queued(id, p) == [id |-> id, packet |-> p]
InHandler(id, verdict, slept) == [id |-> id, verdict |-> verdict, slept |-> slept]
Verdict(id, verdict, slept) == [id |-> id, verdict |-> verdict, slept |-> slept]
Panics == {"none", "entry", "counted"}

(* A panic that nothing recovers ends the program. *)
noRecover(pr) == [pr EXCEPT !.pc = "exited"]
(* recoverFunc, deferred by the handler: the panic is logged and the       *)
(* handler returns 0, so the receive loop goes on.                         *)
recoverFunc(pr) == [pr EXCEPT !.recovered = @ + 1]
panicked(pr, d, id) ==
    recoverFunc([pr EXCEPT !.crashed = @ \cup {id},
                           !.cur[d] = {c \in @ : c.id # id}])

(* A handler that handed its sleep to a goroutine would not hold the loop. *)
sleepsElsewhere(c) == FALSE
(* time.Sleep runs in the handler: the receive loop waits for it. *)
holdsQueue(c) == c.slept > 0

(* nf.SetVerdict: an error (logged) on a handle that is closed. *)
SetVerdict(pr, d, id, verdict, slept) ==
    IF pr.nfq[d] = "open"
    THEN [pr EXCEPT !.verdicts[d] = Append(@, Verdict(id, verdict, slept)),
                    !.cur[d] = {c \in @ : c.id # id}]
    ELSE [pr EXCEPT !.cur[d] = {c \in @ : c.id # id}]

taken(pr, d) ==
    [pr EXCEPT !.pending[d] = Tail(@), !.dequeued[d] = Append(@, Head(pr.pending[d]).id)]
afterHandler(pr, d, id, st) ==
    IF st.slept > 0
    THEN [pr EXCEPT !.cur[d] = @ \cup {InHandler(id, st.verdict, st.slept)}]
    ELSE SetVerdict(pr, d, id, st.verdict, st.slept)

(* Rules.Clean: deleteTable fails when the kernel refuses the batch. *)
Clean(k) ==
    IF k.healthy
    THEN [kernel |-> [k EXCEPT !.table = FALSE], err |-> FALSE]
    ELSE [kernel |-> k, err |-> TRUE]

(* The cleanup function of the queues returns at its first error. *)
returned(todo) == SelectSeq(todo, LAMBDA c : c.f # "nf.Close")

(* The samples file of a run that recorded the last ten minutes. *)
longerDevice(dd, t) ==
    [dd EXCEPT !.samples = recentBuckets(getIndex(dd.config, t, dd.windowStartTime))
                           \cup {getIndex(dd.config, t, dd.windowStartTime)}]
LongerRun(t, defaults, ids) ==
    saveSamples([g \in ids |->
            longerDevice(newDeviceData(t, getDefaultGroupTrackerConfig(defaults)), t)])

InitMain ==
    /\ now = Epoch + 15 * Hour + 12 * Minute
    /\ ticks = 0
    /\ cfgTrackerDefaults \in {c \in TrackerDefaults : c.Retention = 1 * Hour}
    /\ samplesFile \in {NoFile, LongerRun(now, cfgTrackerDefaults, TrackerIds)}
    /\ cfgFile = NewTracker(NoFile, samplesFile).cfgFile
    /\ cfgGroups = NewTracker(NoFile, samplesFile).cfgGroups
    /\ devices = NewTracker(NoFile, samplesFile).devices
    /\ last = NoOp
    /\ sourceIpGroups = [ip \in {"A"} |-> <<GroupG>>]
    /\ destIpGroups = [ip \in {"K"} |-> <<GroupG>>]
    /\ managerModeMatchAllSourceIps = FALSE
    /\ ipMACs = [ip \in {"A"} |-> "mA"]
    /\ trafficMap = EmptyMap
    /\ filterCfg = DefaultFilterConfig
    /\ pkt = NoPacket
    /\ packets = 0
    /\ history = EmptyMap
    /\ rules = NewNFTRules.rules
    /\ \E h \in BOOLEAN : kernel = [NewNFTRules.kernel EXCEPT !.healthy = h]
    /\ proc = NewProcess
    /\ watcher = NewNetWatcher
    /\ domainWatcher = NewDomainWatcher
    /\ server = NewServer
    /\ window = NoWindow
    /\ disk = NewDisk
    /\ calls = NoCalls

mainFrame ==
    UNCHANGED <<now, ticks, cfgTrackerDefaults, cfgFile, sourceIpGroups, destIpGroups,
                managerModeMatchAllSourceIps, ipMACs, filterCfg, history, rules, watcher,
                domainWatcher, server,
                window, disk, calls>>
trackerFrame == UNCHANGED <<cfgGroups, devices, trafficMap, pkt, disk, calls>>

(* The kernel queues a packet that matched the rules of the table. *)
Arrive(p) ==
    /\ packets < MaxPackets
    /\ kernel.table
    /\ proc.pc # "exited"
    /\ packets' = packets + 1
    /\ proc' = [proc EXCEPT !.pending[p.direction] = Append(@, Queued(packets + 1, p))]
    /\ last' = Op("Arrive", <<>>, FALSE, FALSE, FALSE)
    /\ UNCHANGED <<samplesFile, kernel, disk, calls>>
    /\ trackerFrame
    /\ mainFrame

(* The receive loop takes the next packet and calls fnPacketHandler; the   *)
(* handler panics on entry, after it has counted, or not at all.  last.id  *)
(* is the queue and the packet id, last.err whether the handler panicked.  *)
Receive(d, draws, panic) ==
    LET e == Head(proc.pending[d])
        st == fnPacketHandler(e.packet, draws, filterCfg, now)
    IN  /\ proc.pc # "exited"
        /\ ~proc.cancelled
        /\ proc.nfq[d] = "open"
        /\ proc.pending[d] # <<>>
        /\ ~\E c \in proc.cur[d] : holdsQueue(c)
        /\ IF panic = "entry"
           THEN trackerFrame
           ELSE /\ trafficMap' = st.trafficMap
                /\ cfgGroups' = st.cfgGroups
                /\ devices' = st.devices
                /\ pkt' = IF panic = "none" THEN Handled(e.packet, st) ELSE pkt
        /\ proc' = IF panic = "none"
                   THEN afterHandler(taken(proc, d), d, e.id, st)
                   ELSE panicked(taken(proc, d), d, e.id)
        /\ last' = Op("fnPacketHandler", <<d, e.id>>, FALSE, FALSE, panic # "none")
        /\ UNCHANGED <<samplesFile, kernel, packets, disk, calls>>
        /\ mainFrame

(* time.Sleep returns; the handler sets the verdict, or panics. *)
Wake(d, c, panic) ==
    /\ proc.pc # "exited"
    /\ c \in proc.cur[d]
    /\ proc' = IF panic
               THEN panicked(proc, d, c.id)
               ELSE SetVerdict(proc, d, c.id, c.verdict, c.slept)
    /\ last' = Op("SetVerdict", <<d, c.id>>, FALSE, FALSE, panic)
    /\ UNCHANGED <<samplesFile, kernel, packets, disk, calls>>
    /\ trackerFrame
    /\ mainFrame

(* One round of saveSamplesPeriodically, and its return on ctx.Done(). *)
PeriodicSave ==
    /\ proc.pc # "exited"
    /\ proc.saver = "running"
    /\ samplesFile' = saveSamples(devices)
    /\ last' = Op("saveSamples", <<>>, FALSE, FALSE, FALSE)
    /\ UNCHANGED <<kernel, packets, proc, disk, calls>>
    /\ trackerFrame
    /\ mainFrame
SaverReturns ==
    /\ proc.pc # "exited"
    /\ proc.cancelled
    /\ proc.saver = "running"
    /\ proc' = [proc EXCEPT !.saver = "stopped"]
    /\ last' = Op("ctx.Done", <<>>, FALSE, FALSE, FALSE)
    /\ UNCHANGED <<samplesFile, kernel, packets, disk, calls>>
    /\ trackerFrame
    /\ mainFrame

(* SIGINT or SIGTERM: main goes through cleanupFuncs. *)
Signal ==
    /\ proc.pc = "running"
    /\ proc' = [proc EXCEPT !.pc = "cleanup", !.todo = cleanupFuncs(proc.web = "serving")]
    /\ last' = Op("Signal", <<>>, FALSE, FALSE, FALSE)
    /\ UNCHANGED <<samplesFile, kernel, packets, disk, calls>>
    /\ trackerFrame
    /\ mainFrame

cleanupAt(f) == proc.pc = "cleanup" /\ proc.todo # <<>> /\ Head(proc.todo).f = f
stepDone(pr, failed) ==
    [pr EXCEPT !.todo = IF failed /\ Head(pr.todo).f \in {"rules.Clean", "nf.Close"}
                        THEN returned(Tail(@)) ELSE Tail(@),
               !.failure = @ \/ failed]
cleanupFrame ==
    /\ UNCHANGED <<samplesFile, packets, disk, calls>>
    /\ trackerFrame
    /\ mainFrame

DhcpStop(ok) ==
    /\ cleanupAt("dhcpServer.Stop")
    /\ proc' = [stepDone(proc, ~ok) EXCEPT !.dhcp = IF ok THEN "stopped" ELSE @]
    /\ last' = Op("dhcpServer.Stop", <<>>, FALSE, FALSE, ~ok)
    /\ UNCHANGED kernel
    /\ cleanupFrame
CancelCtx ==
    /\ cleanupAt("cancel")
    /\ proc' = [stepDone(proc, FALSE) EXCEPT !.cancelled = TRUE]
    /\ last' = Op("cancel", <<>>, FALSE, FALSE, FALSE)
    /\ UNCHANGED kernel
    /\ cleanupFrame
RulesClean ==
    /\ cleanupAt("rules.Clean")
    /\ kernel' = Clean(kernel).kernel
    /\ proc' = stepDone(proc, Clean(kernel).err)
    /\ last' = Op("rules.Clean", <<>>, FALSE, FALSE, Clean(kernel).err)
    /\ cleanupFrame
NfqClose(ok) ==
    /\ cleanupAt("nf.Close")
    /\ proc' = [stepDone(proc, ~ok) EXCEPT !.nfq[Head(proc.todo).q] = "closed"]
    /\ last' = OpOn("nf.Close", <<>>, FALSE, FALSE, ~ok, Head(proc.todo).q)
    /\ UNCHANGED kernel
    /\ cleanupFrame
WebShutdown(ok) ==
    /\ cleanupAt("s.Shutdown")
    /\ proc' = [stepDone(proc, ~ok) EXCEPT !.web = IF ok THEN "shutdown" ELSE @]
    /\ last' = Op("s.Shutdown", <<>>, FALSE, FALSE, ~ok)
    /\ UNCHANGED kernel
    /\ cleanupFrame
Exit ==
    /\ cleanupAt("exit")
    /\ proc' = [stepDone(proc, FALSE) EXCEPT !.pc = "exited"]
    /\ last' = Op("exit", <<>>, FALSE, FALSE, proc.failure)
    /\ UNCHANGED kernel
    /\ cleanupFrame

NextMain ==
    \/ \E p \in MainPackets : Arrive(p)
    \/ \E d \in Directions, draws \in [1..1 -> Draws], panic \in Panics :
          Receive(d, draws, panic)
    \/ \E d \in Directions, panic \in BOOLEAN : \E c \in proc.cur[d] : Wake(d, c, panic)
    \/ PeriodicSave
    \/ SaverReturns
    \/ Signal
    \/ \E ok \in BOOLEAN : DhcpStop(ok)
    \/ CancelCtx
    \/ RulesClean
    \/ \E ok \in BOOLEAN : NfqClose(ok)
    \/ \E ok \in BOOLEAN : WebShutdown(ok)
    \/ Exit

SpecMain == InitMain /\ [][NextMain]_vars

(* The two queues while main waits for a signal.  A receive loop with a    *)
(* packet to take takes it, and a sleep ends.  receives(d) is every        *)
(* Receive of queue d, the one that needs nothing but its guard first.     *)
NextQueue ==
    \/ \E p \in MainPackets : Arrive(p)
    \/ \E d \in Directions, draws \in [1..1 -> Draws], panic \in Panics :
          Receive(d, draws, panic)
    \/ \E d \in Directions, panic \in BOOLEAN : \E c \in proc.cur[d] : Wake(d, c, panic)
receives(d) ==
    \/ \E draws \in [1..1 -> Draws] : Receive(d, draws, "entry")
    \/ \E draws \in [1..1 -> Draws], panic \in Panics \ {"entry"} : Receive(d, draws, panic)
wakes(d) == \E panic \in BOOLEAN : \E c \in proc.cur[d] : Wake(d, c, panic)
SpecQueue ==
    /\ InitMain
    /\ [][NextQueue]_vars
    /\ \A d \in Directions : WF_vars(receives(d)) /\ WF_vars(wakes(d))

----------------------------------------------------------------------------
(* The net watcher (package group, in src/Makefile) with the group-macs    *)
(* loader (src/unnamed/part_003), the manager, the monitor and the nft     *)
(* rules it notifies, and the filter behind them.  K is an ip of a watched *)
(* domain of group G.                                                      *)
defaultGroupName == <<"default">>
NoGroups == [groups |-> EmptyMap, isNil |-> TRUE]
ConfiguredGroups == [groups |-> [g \in {GroupG} |-> {"mA"}], isNil |-> FALSE]
SharedGroups == [groups |-> [g \in {GroupG, GroupH} |-> {"mA"}], isNil |-> FALSE]

(* groupMACs.GetConfig: an absent file is created empty and is no error;   *)
(* a file that cannot be read is ErrorGroupMacFileNotFound; a file that is *)
(* not YAML is another error.                                              *)
GetConfig(file, createOk) ==
    IF file = "missing"
    THEN [gm |-> NoGroups, err |-> IF createOk THEN "nil" ELSE "create",
          file |-> IF createOk THEN "empty" ELSE "missing"]
    ELSE IF file = "unreadable"
    THEN [gm |-> NoGroups, err |-> "ErrorGroupMacFileNotFound", file |-> file]
    ELSE IF file = "malformed"
    THEN [gm |-> NoGroups, err |-> "unmarshal", file |-> file]
    ELSE IF file = "empty"
    THEN [gm |-> NoGroups, err |-> "nil", file |-> file]
    ELSE IF file = "groups"
    THEN [gm |-> ConfiguredGroups, err |-> "nil", file |-> file]
    ELSE [gm |-> SharedGroups, err |-> "nil", file |-> file]

(* The output of arp: whether the command ran, and its lines as ip and MAC *)
(* ("" for an entry that is incomplete).                                   *)
ArpLine(ip, mac) == [ip |-> ip, mac |-> mac]
ArpOutputs ==
    {[ok |-> FALSE, lines |-> {}],
     [ok |-> TRUE, lines |-> {ArpLine("A", "mA")}],
     [ok |-> TRUE, lines |-> {ArpLine("A", "mA"), ArpLine("B", "")}],
     [ok |-> TRUE, lines |-> {ArpLine("A", "mA"), ArpLine("B", "mB")}]}
withMAC(arp) == {l \in arp.lines : l.mac # ""}
macOfIp(arp, ip) == (CHOOSE l \in withMAC(arp) : l.ip = ip).mac

(* scanNetwork: the flag, then for every line with a MAC the ip's MAC and  *)
(* the ip's groups.  The groups of a MAC are appended while ranging over   *)
(* the map gm.Groups, whose iteration order Go leaves unspecified: order   *)
(* is the order in which this scan meets the groups.                       *)
rangeOrders(gm) ==
    {o \in [1..Cardinality(DOMAIN gm.groups) -> DOMAIN gm.groups] :
        \A g \in DOMAIN gm.groups : \E i \in DOMAIN o : o[i] = g}
inGroup(gm, mac, g) == mac \in gm.groups[g]
groupsOfMAC(gm, mac, order) == SelectSeq(order, LAMBDA g : inGroup(gm, mac, g))
ipGroups(matchAll, gm, mac, order) ==
    IF matchAll /\ gm.isNil THEN <<defaultGroupName>> ELSE groupsOfMAC(gm, mac, order)
scanNetwork(file, createOk, arp, order) ==
    [matchAll |-> GetConfig(file, createOk).err # "nil",
     file |-> GetConfig(file, createOk).file,
     mig |-> IF arp.ok
             THEN [ip \in {l.ip : l \in {x \in withMAC(arp) :
                              ipGroups(GetConfig(file, createOk).err # "nil",
                                       GetConfig(file, createOk).gm, x.mac, order) # <<>>}}
                     |-> ipGroups(GetConfig(file, createOk).err # "nil",
                                  GetConfig(file, createOk).gm, macOfIp(arp, ip), order)]
             ELSE EmptyMap,
     mim |-> IF arp.ok
             THEN [ip \in {l.ip : l \in withMAC(arp)} |-> macOfIp(arp, ip)]
             ELSE EmptyMap]

(* scanNetworkAndNotify: the receivers of the groups are told in match-all *)
(* mode or when the groups changed, the receivers of the MACs when there   *)
(* is a MAC.                                                               *)
notifiesGroups(nw, sc) == sc.matchAll \/ sc.mig # nw.sourceIpGroups

InitWatcher ==
    /\ now = Epoch + 15 * Hour + 12 * Minute
    /\ ticks = 0
    /\ cfgTrackerDefaults \in {c \in TrackerDefaults : c.Retention = 1 * Hour}
    /\ samplesFile = NoFile
    /\ cfgFile = NewTracker(NoFile, samplesFile).cfgFile
    /\ cfgGroups = NewTracker(NoFile, samplesFile).cfgGroups
    /\ devices = NewTracker(NoFile, samplesFile).devices
    /\ last = NoOp
    /\ sourceIpGroups = EmptyMap
    /\ destIpGroups = [ip \in {"K"} |-> <<GroupG>>]
    /\ managerModeMatchAllSourceIps = FALSE
    /\ ipMACs = EmptyMap
    /\ trafficMap = EmptyMap
    /\ filterCfg = DefaultFilterConfig
    /\ pkt = NoPacket
    /\ packets = 0
    /\ history = EmptyMap
    /\ rules = NewNFTRules.rules
    /\ kernel = NewNFTRules.kernel
    /\ proc = NewProcess
    /\ \E f \in GroupMacsFiles : watcher = [NewNetWatcher EXCEPT !.file = f]
    /\ domainWatcher = NewDomainWatcher
    /\ server = NewServer
    /\ window = NoWindow
    /\ disk = NewDisk
    /\ calls = NoCalls

DoScanNetworkAndNotify(arp, createOk, order) ==
    LET sc == scanNetwork(watcher.file, createOk, arp, order)
    IN  /\ order \in rangeOrders(GetConfig(watcher.file, createOk).gm)
        /\ managerModeMatchAllSourceIps' = sc.matchAll
        /\ watcher' = [file |-> sc.file,
                       sourceIpGroups |-> IF notifiesGroups(watcher, sc)
                                          THEN sc.mig ELSE watcher.sourceIpGroups,
                       scanned |-> [file |-> watcher.file,
                                    err |-> GetConfig(watcher.file, createOk).err,
                                    arp |-> arp,
                                    ips |-> IF arp.ok THEN {l.ip : l \in withMAC(arp)}
                                            ELSE {},
                                    matchAll |-> sc.matchAll,
                                    groupsSent |-> notifiesGroups(watcher, sc),
                                    macsSent |-> DOMAIN sc.mim # {}]]
        /\ sourceIpGroups' = IF notifiesGroups(watcher, sc) THEN sc.mig ELSE sourceIpGroups
        /\ rules' = IF notifiesGroups(watcher, sc)
                    THEN UpdateSourceIpGroups(rules, kernel, sc.mig).rules ELSE rules
        /\ kernel' = IF notifiesGroups(watcher, sc)
                     THEN UpdateSourceIpGroups(rules, kernel, sc.mig).kernel ELSE kernel
        /\ ipMACs' = IF DOMAIN sc.mim # {}
                     THEN UpdateSourceIpMACs(trafficMap, sc.mim, now).ipMACs ELSE ipMACs
        /\ trafficMap' = IF DOMAIN sc.mim # {}
                         THEN UpdateSourceIpMACs(trafficMap, sc.mim, now).trafficMap
                         ELSE trafficMap
        /\ last' = Op("scanNetworkAndNotify", <<>>, FALSE, FALSE, ~arp.ok)
        /\ UNCHANGED <<now, ticks, cfgTrackerDefaults, cfgGroups, devices, samplesFile,
                       cfgFile, destIpGroups, filterCfg, pkt, packets, history, proc,
                       domainWatcher, server,
                       window, disk, calls>>

(* The group-macs file is written, spoilt or removed between two scans. *)
FileChanges(f) ==
    /\ f # watcher.file
    /\ watcher' = [watcher EXCEPT !.file = f]
    /\ last' = Op("group-macs", <<>>, FALSE, FALSE, FALSE)
    /\ UNCHANGED <<now, ticks, cfgTrackerDefaults, cfgGroups, devices, samplesFile,
                   cfgFile, sourceIpGroups, destIpGroups, managerModeMatchAllSourceIps,
                   ipMACs, trafficMap, filterCfg, pkt, packets, history, rules, kernel,
                   proc,
                   domainWatcher, server, window, disk, calls>>

WatcherPackets ==
    {Packet("A", "K", Egress, "TCP", 40), Packet("B", "K", Egress, "TCP", 40)}
NextWatcher ==
    \/ \E arp \in ArpOutputs, createOk \in BOOLEAN :
          \E order \in rangeOrders(GetConfig(watcher.file, createOk).gm) :
             DoScanNetworkAndNotify(arp, createOk, order)
    \/ \E f \in GroupMacsFiles : FileChanges(f)
    \/ \E p \in WatcherPackets :
          \E draws \in [1..Len(groupsOf(p)) -> Draws] : HandlePacket(p, draws)

SpecWatcher == InitWatcher /\ [][NextWatcher]_vars

----------------------------------------------------------------------------
(* The domain watcher (package group, src/unnamed/part_006) with the       *)
(* manager and the nft rules it notifies.  fnGroupDomainLoader gives one   *)
(* group with one domain, d; the resolver's answer for it is a map from    *)
(* the ips it found to d, empty when the lookup failed.                    *)
MaxResolves == 3
groupDomains == [g \in {GroupG} |-> <<"d">>]
domainsOf(group) == {groupDomains[group][i] : i \in DOMAIN groupDomains[group]}

(* maps.Copy(dst, src): the keys of src are added to dst. *)
mapsCopy(dst, src) ==
    [k \in DOMAIN dst \cup DOMAIN src |-> IF k \in DOMAIN src THEN src[k] ELSE dst[k]]

(* loadGroupDomains: every load appends the group to the groups of each of *)
(* its domains.                                                            *)
loadGroupDomains(destDomainGroups) ==
    [d \in DOMAIN destDomainGroups \cup domainsOf(GroupG) |->
        (IF d \in DOMAIN destDomainGroups THEN destDomainGroups[d] ELSE <<>>)
        \o (IF d \in domainsOf(GroupG) THEN <<GroupG>> ELSE <<>>)]

(* generateIPGroups: the groups of every ip of dw.destIpDomains. *)
generateIPGroups(destIpDomains) ==
    [ip \in {k \in DOMAIN destIpDomains : destIpDomains[k] \in domainsOf(GroupG)}
        |-> <<GroupG>>]

InitResolver ==
    /\ now = Epoch + 15 * Hour + 12 * Minute
    /\ ticks = 0
    /\ cfgTrackerDefaults \in {c \in TrackerDefaults : c.Retention = 1 * Hour}
    /\ samplesFile = NoFile
    /\ cfgFile = NewTracker(NoFile, samplesFile).cfgFile
    /\ cfgGroups = NewTracker(NoFile, samplesFile).cfgGroups
    /\ devices = NewTracker(NoFile, samplesFile).devices
    /\ last = NoUpdate
    /\ InitNet
    /\ window = NoWindow
    /\ disk = NewDisk
    /\ calls = NoCalls

(* One run of the function DomainWatcher.Start calls at once and on every  *)
(* tick of its ticker: load, resolve, maps.Copy into dw.destIpDomains,     *)
(* generateIPGroups, notifyReceivers (the rules get the ip->domain table,  *)
(* the manager the ip->groups table).                                      *)
Resolve(m) ==
    /\ domainWatcher.resolves < MaxResolves
    /\ domainWatcher' =
          [destIpDomains |-> mapsCopy(domainWatcher.destIpDomains, m),
           destIpGroups |-> generateIPGroups(mapsCopy(domainWatcher.destIpDomains, m)),
           destDomainGroups |-> loadGroupDomains(domainWatcher.destDomainGroups),
           resolved |-> m,
           sent |-> mapsCopy(domainWatcher.destIpDomains, m),
           resolves |-> domainWatcher.resolves + 1]
    /\ destIpGroups' = generateIPGroups(mapsCopy(domainWatcher.destIpDomains, m))
    /\ rules' = UpdateDestIpDomains(rules, kernel,
                                    mapsCopy(domainWatcher.destIpDomains, m)).rules
    /\ kernel' = UpdateDestIpDomains(rules, kernel,
                                     mapsCopy(domainWatcher.destIpDomains, m)).kernel
    /\ last' = OpOn("DomainWatcher.Start", DOMAIN m, FALSE, FALSE, FALSE, kernel.setRemote)
    /\ UNCHANGED <<now, ticks, cfgTrackerDefaults, cfgGroups, devices, samplesFile,
                   cfgFile, sourceIpGroups, managerModeMatchAllSourceIps, ipMACs,
                   trafficMap, filterCfg, pkt, packets, history, proc, watcher, server,
                   window, disk, calls>>

NextResolver ==
    \/ \E m \in DestSnapshots : Resolve(m)
    \/ \E newData \in SourceSnapshots : DoUpdateSourceIpGroups(newData)
    \/ KernelFault

SpecResolver == InitResolver /\ [][NextResolver]_vars

----------------------------------------------------------------------------
(* The group manager on its own (src/group/manager.go): the two snapshots  *)
(* as its callbacks last stored them, the package flag as scanNetwork last *)
(* set it, and IsSrcDestIpKnown asked about a pair of addresses.           *)
ManagerSources ==
    {[ip \in ips |-> gs] : ips \in SUBSET {"A", "B"}, gs \in {<<GroupG>>, <<GroupG, GroupH>>}}
ManagerDests ==
    {[ip \in ips |-> gs] : ips \in SUBSET {"K", "L"}, gs \in {<<GroupG>>, <<GroupH, GroupG>>}}
ManagerAddrs == {"A", "B", "K", "L"}

InitManager ==
    /\ now = Epoch + 15 * Hour + 12 * Minute
    /\ ticks = 0
    /\ cfgTrackerDefaults \in {c \in TrackerDefaults : c.Retention = 1 * Hour}
    /\ samplesFile = NoFile
    /\ cfgFile = NewTracker(NoFile, samplesFile).cfgFile
    /\ cfgGroups = NewTracker(NoFile, samplesFile).cfgGroups
    /\ devices = NewTracker(NoFile, samplesFile).devices
    /\ last = NoOp
    /\ sourceIpGroups \in ManagerSources
    /\ destIpGroups \in ManagerDests
    /\ managerModeMatchAllSourceIps \in BOOLEAN
    /\ ipMACs = EmptyMap
    /\ trafficMap = EmptyMap
    /\ filterCfg = DefaultFilterConfig
    /\ pkt = NoPacket
    /\ packets = 0
    /\ history = EmptyMap
    /\ rules = NewNFTRules.rules
    /\ kernel = NewNFTRules.kernel
    /\ proc = NewProcess
    /\ watcher = NewNetWatcher
    /\ domainWatcher = NewDomainWatcher
    /\ server = NewServer
    /\ window = NoWindow
    /\ disk = NewDisk
    /\ calls = NoCalls

(* last.id is the pair asked about, last.ret whether it is known, last.was *)
(* the groups returned.                                                    *)
DoIsSrcDestIpKnown(srcIp, dstIp) ==
    /\ last' = OpOn("IsSrcDestIpKnown", <<srcIp, dstIp>>, FALSE,
                    IsSrcDestIpKnown(managerModeMatchAllSourceIps, sourceIpGroups,
                                     destIpGroups, srcIp, dstIp).ok,
                    FALSE,
                    IsSrcDestIpKnown(managerModeMatchAllSourceIps, sourceIpGroups,
                                     destIpGroups, srcIp, dstIp).groups)
    /\ UNCHANGED <<now, ticks, cfgTrackerDefaults, cfgGroups, devices, samplesFile,
                   cfgFile, netVars, window, disk, calls>>

(* Manager.UpdateSourceIpGroups and Manager.UpdateDestIpGroups. *)
ManagerUpdateSourceIpGroups(newData) ==
    /\ sourceIpGroups' = newData
    /\ last' = Op("Manager.UpdateSourceIpGroups", <<>>, FALSE, FALSE, FALSE)
    /\ UNCHANGED <<now, ticks, cfgTrackerDefaults, cfgGroups, devices, samplesFile,
                   cfgFile, destIpGroups, managerModeMatchAllSourceIps, ipMACs,
                   trafficMap, filterCfg, pkt, packets, history, rules, kernel, proc,
                   watcher, domainWatcher, server, window, disk, calls>>
ManagerUpdateDestIpGroups(newData) ==
    /\ destIpGroups' = newData
    /\ last' = Op("Manager.UpdateDestIpGroups", <<>>, FALSE, FALSE, FALSE)
    /\ UNCHANGED <<now, ticks, cfgTrackerDefaults, cfgGroups, devices, samplesFile,
                   cfgFile, sourceIpGroups, managerModeMatchAllSourceIps, ipMACs,
                   trafficMap, filterCfg, pkt, packets, history, rules, kernel, proc,
                   watcher, domainWatcher, server, window, disk, calls>>

NextManager ==
    \/ \E srcIp, dstIp \in ManagerAddrs : DoIsSrcDestIpKnown(srcIp, dstIp)
    \/ \E newData \in ManagerSources : ManagerUpdateSourceIpGroups(newData)
    \/ \E newData \in ManagerDests : ManagerUpdateDestIpGroups(newData)

SpecManager == InitManager /\ [][NextManager]_vars

----------------------------------------------------------------------------
(* The DHCP supervisor (package dhcp, src/unnamed/part_007): the worker    *)
(* that reconciles on a signal in chanWorker, the ticker that puts one     *)
(* there every 15 s, SetConfig from the web handler, and dnsmasq with the  *)
(* interface's static IP as startDnsmasq and Stop leave them.              *)
numAttempts == 1
chanWorkerCap == 2
MaxSenders == 1

(* startDnsmasq: the step that fails ("none" when all succeed), and        *)
(* whether the nmcli commands of unsetStaticIP succeed when it is called.  *)
(* The forced start of a reconcile is tried with its first and its last    *)
(* step failing.                                                           *)
StartFailures ==
    {"none", "setStaticIP", "generateDnsmasqConfig", "writeDnsmasqConfig",
     "setDnsmasqServiceState", "isDnsmasqServiceActive"}
ForcedFailures == {"none", "setStaticIP", "isDnsmasqServiceActive"}
rollsBackAfterInstall(failed) == failed \notin {"none", "setStaticIP"}
rollsBack(failed) == failed # "none"
installed(staticIP, failed) == IF failed = "setStaticIP" THEN staticIP ELSE TRUE
startDnsmasq(staticIP, dnsmasq, failed, unsetOk) ==
    [staticIP |-> IF rollsBack(failed) /\ unsetOk THEN FALSE
                  ELSE installed(staticIP, failed),
     dnsmasq |-> IF failed = "none" THEN "active"
                 ELSE IF failed \in {"setDnsmasqServiceState", "isDnsmasqServiceActive"}
                 THEN "inactive"
                 ELSE dnsmasq,
     err |-> failed # "none",
     failed |-> failed,
     unset |-> rollsBack(failed),
     unsetOk |-> unsetOk]

(* Server.Stop: unsetStaticIP, then systemctl stop dnsmasq. *)
StopFailures == {"none", "unsetStaticIP", "setDnsmasqServiceState"}
Stop(staticIP, dnsmasq, failed) ==
    [staticIP |-> IF failed = "unsetStaticIP" THEN staticIP ELSE FALSE,
     dnsmasq |-> IF failed = "none" THEN "inactive" ELSE dnsmasq,
     err |-> failed # "none"]

(* What one call of maybeStartOrStopDnsmasq meets: the answer the probe    *)
(* isDHCPServerRunning gets (or would get, when the call does not probe)   *)
(* from the servers present, how the start in the loop, the forced start   *)
(* and Stop go, and whether unsetStaticIP works.                           *)
Env(probe, start, force, unsetOk, stop) ==
    [probe |-> probe, start |-> start, force |-> force, unsetOk |-> unsetOk,
     stop |-> stop]
Probes ==
    {Probe(l, r, FALSE) : l, r \in BOOLEAN} \cup {Probe(FALSE, FALSE, TRUE)}

wantEnabled(cfg) == cfg.ServiceEnabled
alwaysStarts(cfg) == TRUE
shouldStart(cfg) == cfg.needsRestart
neverForces(cfg) == FALSE
forcesStart(cfg) == wantEnabled(cfg)
stopsWithoutPeer(probe) ==
    IF probe.local THEN "stop" ELSE serviceStateInactive
whenDisabled(probe) ==
    IF probe.local /\ probe.router THEN "stop"
    ELSE IF probe.local THEN serviceStateWaitingToStop
    ELSE serviceStateInactive
whenEnabled(probe) ==
    IF probe.router THEN serviceStateActiveRouterCanBeStopped ELSE serviceStateActive

(* The body of the loop, which runs numAttempts = 1 times: done says that  *)
(* it returned, otherwise the forced start follows.                        *)
Outcome(done, state, err, sys, needsRestart, starts, stop) ==
    [done |-> done, state |-> state, err |-> err, staticIP |-> sys.staticIP,
     dnsmasq |-> sys.dnsmasq, needsRestart |-> needsRestart, starts |-> starts,
     stop |-> stop]
attempt(sv, env) ==
    IF env.probe.err
    THEN Outcome(FALSE, sv.cfg.ServiceState, TRUE, sv, sv.cfg.needsRestart, <<>>,
                 "not called")
    ELSE IF ~wantEnabled(sv.cfg)
    THEN IF whenDisabled(env.probe) = "stop"
         THEN Outcome(TRUE,
                      IF env.stop = "none" THEN serviceStateInactive
                      ELSE sv.cfg.ServiceState,
                      env.stop # "none", Stop(sv.staticIP, sv.dnsmasq, env.stop),
                      sv.cfg.needsRestart, <<>>, env.stop)
         ELSE Outcome(TRUE, whenDisabled(env.probe), FALSE, sv, sv.cfg.needsRestart,
                      <<>>, "not called")
    ELSE IF ~shouldStart(sv.cfg)
    THEN Outcome(TRUE, whenEnabled(env.probe), FALSE, sv, FALSE, <<>>, "not called")
    ELSE IF env.start # "none"
    THEN Outcome(FALSE, sv.cfg.ServiceState, TRUE,
                 startDnsmasq(sv.staticIP, sv.dnsmasq, env.start, env.unsetOk),
                 sv.cfg.needsRestart,
                 <<startDnsmasq(sv.staticIP, sv.dnsmasq, env.start, env.unsetOk)>>,
                 "not called")
    ELSE Outcome(TRUE, whenEnabled(env.probe), FALSE,
                 startDnsmasq(sv.staticIP, sv.dnsmasq, env.start, env.unsetOk),
                 FALSE,
                 <<startDnsmasq(sv.staticIP, sv.dnsmasq, env.start, env.unsetOk)>>,
                 "not called")

(* After the loop: the forced start, when the config wants dnsmasq. *)
forceStart(sv, env, a) ==
    IF forcesStart(sv.cfg)
    THEN Outcome(TRUE,
                 IF env.force = "none" THEN serviceStateActive
                 ELSE serviceStateFailedCheckConfig,
                 env.force # "none",
                 startDnsmasq(a.staticIP, a.dnsmasq, env.force, env.unsetOk),
                 a.needsRestart,
                 Append(a.starts,
                        startDnsmasq(a.staticIP, a.dnsmasq, env.force, env.unsetOk)),
                 a.stop)
    ELSE Outcome(TRUE, serviceStateFailedCheckConfig, TRUE, a, a.needsRestart,
                 a.starts, a.stop)

(* maybeStartOrStopDnsmasq without its deferred function. *)
reconciled(sv, env) ==
    IF ~sv.cfg.needsAction
    THEN Outcome(TRUE, sv.cfg.ServiceState, FALSE, sv, sv.cfg.needsRestart, <<>>,
                 "not called")
    ELSE IF sv.dnsMasqServiceDisabledForDebug
    THEN Outcome(TRUE, serviceStateInactive, FALSE, sv, sv.cfg.needsRestart, <<>>,
                 "not called")
    ELSE IF attempt(sv, env).done
    THEN attempt(sv, env)
    ELSE forceStart(sv, env, attempt(sv, env))

(* The deferred function: no more action once the service is all the way  *)
(* up or down, and the warning LED.                                        *)
settlesWithPeer(needsAction, state) ==
    IF state \in {serviceStateActive, serviceStateInactive,
                  serviceStateActiveRouterCanBeStopped}
    THEN FALSE ELSE needsAction
settled(needsAction, state) ==
    IF state \in {serviceStateActive, serviceStateInactive} THEN FALSE ELSE needsAction
ledAfter(led, state) ==
    IF state = serviceStateActive THEN "no warning"
    ELSE IF state = serviceStateInactive THEN "warning"
    ELSE led
probes(sv) == sv.cfg.needsAction /\ ~sv.dnsMasqServiceDisabledForDebug
maybeStartOrStopDnsmasq(sv, env) ==
    [sv EXCEPT !.cfg = [ServiceEnabled |-> sv.cfg.ServiceEnabled,
                        ServiceState |-> reconciled(sv, env).state,
                        needsAction |-> settled(sv.cfg.needsAction,
                                                reconciled(sv, env).state),
                        needsRestart |-> reconciled(sv, env).needsRestart],
               !.staticIP = reconciled(sv, env).staticIP,
               !.dnsmasq = reconciled(sv, env).dnsmasq,
               !.led = ledAfter(sv.led, reconciled(sv, env).state),
               !.did = [ran |-> TRUE, probed |-> probes(sv), probe |-> env.probe,
                        starts |-> reconciled(sv, env).starts,
                        stop |-> reconciled(sv, env).stop,
                        err |-> reconciled(sv, env).err,
                        from |-> sv.cfg]]

(* The inputs a reconcile can meet: an offer from this host needs dnsmasq  *)
(* running, and what is not called has no outcome.                         *)
probesMet(sv) == {probe \in Probes : probe.local => sv.dnsmasq = "active"}
startsMet(sv, probe) ==
    IF probes(sv) /\ ~probe.err /\ wantEnabled(sv.cfg) /\ shouldStart(sv.cfg)
    THEN StartFailures ELSE {"none"}
forcesMet(sv, probe, start) ==
    IF probes(sv) /\ wantEnabled(sv.cfg) /\ (probe.err \/ start # "none")
    THEN ForcedFailures ELSE {"none"}
stopsMet(sv, probe) ==
    IF probes(sv) /\ ~probe.err /\ ~wantEnabled(sv.cfg) /\ probe.local /\ probe.router
    THEN StopFailures ELSE {"none"}
unsetsMet(start, force) ==
    IF start = "none" /\ force = "none" THEN {TRUE} ELSE BOOLEAN
Meets(sv, env) ==
    /\ env.probe \in probesMet(sv)
    /\ env.start \in startsMet(sv, env.probe)
    /\ env.force \in forcesMet(sv, env.probe, env.start)
    /\ env.stop \in stopsMet(sv, env.probe)
    /\ env.unsetOk \in unsetsMet(env.start, env.force)

InitDhcp ==
    /\ now = Epoch + 15 * Hour + 12 * Minute
    /\ ticks = 0
    /\ cfgTrackerDefaults \in {c \in TrackerDefaults : c.Retention = 1 * Hour}
    /\ samplesFile = NoFile
    /\ cfgFile = NewTracker(NoFile, samplesFile).cfgFile
    /\ cfgGroups = NewTracker(NoFile, samplesFile).cfgGroups
    /\ devices = NewTracker(NoFile, samplesFile).devices
    /\ last = NoOp
    /\ sourceIpGroups = EmptyMap
    /\ destIpGroups = EmptyMap
    /\ managerModeMatchAllSourceIps = FALSE
    /\ ipMACs = EmptyMap
    /\ trafficMap = EmptyMap
    /\ filterCfg = DefaultFilterConfig
    /\ pkt = NoPacket
    /\ packets = 0
    /\ history = EmptyMap
    /\ rules = NewNFTRules.rules
    /\ kernel = NewNFTRules.kernel
    /\ proc = NewProcess
    /\ watcher = NewNetWatcher
    /\ domainWatcher = NewDomainWatcher
    /\ \E enabled, debug, staticIP \in BOOLEAN, dnsmasq \in {"active", "inactive"} :
          server = [NewServer EXCEPT !.cfg.ServiceEnabled = enabled,
                                     !.dnsMasqServiceDisabledForDebug = debug,
                                     !.staticIP = staticIP,
                                     !.dnsmasq = dnsmasq]
    /\ window = NoWindow
    /\ disk = NewDisk
    /\ calls = NoCalls

dhcpFrame ==
    UNCHANGED <<now, ticks, cfgTrackerDefaults, cfgGroups, devices, samplesFile, cfgFile,
                sourceIpGroups, destIpGroups, managerModeMatchAllSourceIps, ipMACs,
                trafficMap, filterCfg, pkt, packets, history, rules, kernel, proc,
                watcher, domainWatcher, window, disk, calls>>

(* startWorker, case <-ticker.C: the worker itself sends the signal to its *)
(* own channel, and waits for ever when the channel is full.               *)
TickerFires ==
    /\ server.worker = "select"
    /\ server' = IF server.chanWorker < chanWorkerCap
                 THEN [server EXCEPT !.chanWorker = @ + 1]
                 ELSE [server EXCEPT !.worker = "blocked"]
    /\ last' = Op("ticker.C", <<>>, FALSE, FALSE, FALSE)
    /\ dhcpFrame

(* startWorker, case <-s.chanWorker: one signal is taken (a sender that    *)
(* waited puts its signal in the place) and the state is reconciled.       *)
received(sv) ==
    IF sv.senders > 0 THEN [sv EXCEPT !.senders = @ - 1]
    ELSE [sv EXCEPT !.chanWorker = @ - 1]
Reconcile(env) ==
    /\ server.worker = "select"
    /\ server.chanWorker > 0
    /\ Meets(server, env)
    /\ server' = maybeStartOrStopDnsmasq(received(server), env)
    /\ last' = Op("maybeStartOrStopDnsmasq", <<>>, FALSE, FALSE,
                  reconciled(server, env).err)
    /\ dhcpFrame

(* Server.SetConfig from the web handler with a valid config: the posted   *)
(* config replaces s.cfg, with the state the client sent (none, or the one *)
(* it was shown), and restart() sends a signal, waiting when the channel   *)
(* is full.                                                                *)
DhcpSetConfig(enabled, echo) ==
    /\ server.senders < MaxSenders
    /\ server' = [server EXCEPT
                    !.cfg = [ServiceEnabled |-> enabled,
                             ServiceState |-> IF echo THEN server.cfg.ServiceState ELSE "",
                             needsAction |-> TRUE,
                             needsRestart |-> TRUE],
                    !.chanWorker = IF @ < chanWorkerCap THEN @ + 1 ELSE @,
                    !.senders = IF server.chanWorker < chanWorkerCap THEN @ ELSE @ + 1,
                    !.did = NothingDone]
    /\ last' = Op("Server.SetConfig", <<>>, FALSE, FALSE, FALSE)
    /\ dhcpFrame

NextDhcp ==
    \/ TickerFires
    \/ \E probe \in probesMet(server) :
          \E start \in startsMet(server, probe), stop \in stopsMet(server, probe) :
             \E force \in forcesMet(server, probe, start) :
                \E unsetOk \in unsetsMet(start, force) :
                   Reconcile(Env(probe, start, force, unsetOk, stop))
    \/ \E enabled, echo \in BOOLEAN : DhcpSetConfig(enabled, echo)

SpecDhcp == InitDhcp /\ [][NextDhcp]_vars

----------------------------------------------------------------------------
(* calculateWindow on its own: the window of a new device, for a clock on  *)
(* every day of a week and every StartDay.                                 *)
TimesOfDay == {0, 9 * Hour + 59 * Minute, 10 * Hour, 23 * Hour + 59 * Minute}
WindowTimes == {Epoch + d * Day + tod : d \in 0..6, tod \in TimesOfDay}
WindowConfigs ==
    {Cfg(1 * Minute, r, 180 * Minute, sday, sdur) :
        r \in {168 * Hour, 192 * Hour}, sday \in 0..6, sdur \in {0, 10 * Hour}}
    \cup {Cfg(1 * Minute, 24 * Hour, 10 * Minute, 0, sdur) : sdur \in {0, 10 * Hour}}
    \cup {Cfg(1 * Minute, 1 * Hour, 10 * Minute, 0, sdur) : sdur \in {0, 20 * Minute}}

InitWindow ==
    /\ now \in WindowTimes
    /\ ticks = 0
    /\ cfgTrackerDefaults \in WindowConfigs
    /\ samplesFile = NoFile
    /\ cfgFile = NewTracker(NoFile, samplesFile).cfgFile
    /\ cfgGroups = NewTracker(NoFile, samplesFile).cfgGroups
    /\ devices = NewTracker(NoFile, samplesFile).devices
    /\ last = NoOp
    /\ InitNet
    /\ window = NoWindow
    /\ disk = NewDisk
    /\ calls = NoCalls

(* newDeviceData(now, config).windowStartTime and the next window's start *)
CalculateWindow ==
    /\ ~window.done
    /\ window' = [done |-> TRUE,
                  last |-> calculateWindow(
                               adjustedConfig(getDefaultGroupTrackerConfig(cfgTrackerDefaults)),
                               now).last,
                  next |-> calculateWindow(
                               adjustedConfig(getDefaultGroupTrackerConfig(cfgTrackerDefaults)),
                               now).next]
    /\ UNCHANGED <<now, ticks, trackerVars, netVars, disk, calls>>

NextWindow == CalculateWindow

SpecWindow == InitWindow /\ [][NextWindow]_vars

----------------------------------------------------------------------------
(* Writing the persisted files.  config.SafeWriteViaTemp creates the temp  *)
(* file, writes the data, syncs and renames; writeDnsmasqConfig is         *)
(* os.WriteFile, which opens the target with O_TRUNC and writes into it.   *)
(* A write is a run of steps; the process may stop after any of them (a    *)
(* crash, a power cut, or the step's own error return).                    *)

MaxWrites == 2
OldBlocks == <<"old1", "old2">>
NewData == {<<>>, <<"new1", "new2">>}

(* Who writes which file: part_003:64 and :188, part_001:106 and :171,     *)
(* part_008:75 go through SafeWriteViaTemp; part_007:154 does not.         *)
writesViaTemp(path) == path # configFileDNSMasqService

(* generateConfig never returns an empty dnsmasq.conf. *)
dataFor(path) == IF path = configFileDNSMasqService THEN NewData \ {<<>>} ELSE NewData

(* One step of SafeWriteViaTemp(filePath, data). *)
SafeWriteViaTemp(d) ==
    LET p == d.writer.path
        t == d.temp[p]
    IN  CASE d.writer.pc = "create" ->
                 [d EXCEPT !.temp[p] = Holding(<<>>), !.writer.pc = "write"]
          [] d.writer.pc = "write" ->
                 IF Len(t.blocks) < Len(d.writer.data)
                 THEN [d EXCEPT !.temp[p] =
                          Holding(Append(t.blocks, d.writer.data[Len(t.blocks) + 1]))]
                 ELSE [d EXCEPT !.writer.pc = "sync"]
          [] d.writer.pc = "sync" -> [d EXCEPT !.writer.pc = "rename"]
          [] OTHER ->
                 [d EXCEPT !.target[p] = t, !.temp[p] = Absent, !.writer.pc = "idle"]

(* One step of writeDnsmasqConfig(configPath, configContent). *)
writeDnsmasqConfig(d) ==
    LET p == d.writer.path
        f == d.target[p]
    IN  CASE d.writer.pc = "open" ->
                 [d EXCEPT !.target[p] = Holding(<<>>), !.writer.pc = "write"]
          [] OTHER ->
                 IF Len(f.blocks) < Len(d.writer.data)
                 THEN [d EXCEPT !.target[p] =
                          Holding(Append(f.blocks, d.writer.data[Len(f.blocks) + 1]))]
                 ELSE [d EXCEPT !.writer.pc = "idle"]

InitDisk ==
    /\ now = Epoch + 15 * Hour + 12 * Minute
    /\ ticks = 0
    /\ cfgTrackerDefaults \in {c \in TrackerDefaults : c.Retention = 1 * Hour}
    /\ samplesFile = NoFile
    /\ cfgFile = NewTracker(NoFile, samplesFile).cfgFile
    /\ cfgGroups = NewTracker(NoFile, samplesFile).cfgGroups
    /\ devices = NewTracker(NoFile, samplesFile).devices
    /\ last = NoOp
    /\ InitNet
    /\ window = NoWindow
    /\ \E held \in SUBSET PersistedPaths :
          disk = [NewDisk EXCEPT
                     !.target = [p \in PersistedPaths |->
                                    IF p \in held THEN Holding(OldBlocks) ELSE Absent]]
    /\ calls = NoCalls

diskFrame == UNCHANGED <<now, ticks, trackerVars, netVars, window, calls>>

(* A caller starts to write data to path. *)
BeginWrite(path, data) ==
    /\ disk.writer.pc = "idle"
    /\ disk.writes < MaxWrites
    /\ disk' = [disk EXCEPT
                   !.writer = [path |-> path, data |-> data, old |-> disk.target[path],
                               pc |-> IF writesViaTemp(path) THEN "create" ELSE "open"],
                   !.writes = @ + 1]
    /\ diskFrame

(* The write in progress takes its next step. *)
WriteStep ==
    /\ disk.writer.pc # "idle"
    /\ disk' = IF writesViaTemp(disk.writer.path)
               THEN SafeWriteViaTemp(disk)
               ELSE writeDnsmasqConfig(disk)
    /\ diskFrame

(* The write in progress stops where it is: what is on disk stays. *)
WriteStops ==
    /\ disk.writer.pc # "idle"
    /\ disk' = [disk EXCEPT !.writer.pc = "idle"]
    /\ diskFrame

(* The three components that read a configuration file when they start:   *)
(* usage.NewTracker, groupMACs.GetConfig and dhcp.NewServer.               *)
Components == {"tracker", "groupMACs", "dhcp"}
configPath(component) ==
    CASE component = "tracker" -> defaultGroupTrackerConfigFilePath
      [] component = "groupMACs" -> defaultGroupMacFilePath
      [] OTHER -> configFileDHCPSettings

(* config.GetConfig[T] and groupMACs.GetConfig: an absent file is created  *)
(* empty with SafeWriteViaTemp(path, "") and the zero value of T is        *)
(* returned with a nil error; a file that is there is unmarshalled into    *)
(* newInstance().                                                          *)
configGetConfig(d, path, createOk) ==
    IF d.target[path].exists
    THEN [disk |-> d, zero |-> FALSE, err |-> FALSE]
    ELSE IF createOk
         THEN [disk |-> [d EXCEPT !.target[path] = Holding(<<>>)],
               zero |-> TRUE, err |-> FALSE]
         ELSE [disk |-> d, zero |-> TRUE, err |-> TRUE]

(* What the caller does with the value.  NewTracker replaces a nil map by  *)
(* an empty one; the zero GroupMACsConfig is an empty struct; dhcp's       *)
(* GetConfig reads newCfg.DefaultGateway of the *DNSMasqConfig it got,     *)
(* which is nil for the zero value.                                        *)
started(component, r) ==
    IF r.err THEN "error"
    ELSE IF component = "dhcp" /\ r.zero THEN "panic"
    ELSE "ok"

(* A component starts and reads its configuration file. *)
Startup(component, createOk) ==
    /\ disk.writer.pc = "idle"
    /\ disk.writes = 0
    /\ disk.got = NoStartup
    /\ LET r == configGetConfig(disk, configPath(component), createOk)
       IN  disk' = [r.disk EXCEPT !.got =
                       [component |-> component,
                        absent |-> ~disk.target[configPath(component)].exists,
                        createOk |-> createOk,
                        outcome |-> started(component, r)]]
    /\ diskFrame

NextDisk ==
    \/ \E component \in Components, createOk \in BOOLEAN : Startup(component, createOk)
    \/ \E path \in PersistedPaths : \E data \in dataFor(path) : BeginWrite(path, data)
    \/ WriteStep
    \/ WriteStops

SpecDisk == InitDisk /\ [][NextDisk]_vars

----------------------------------------------------------------------------
(* The group-macs file (src/unnamed/part_003, src/models/interfaces.go).   *)
(* The text of a MAC is its hex digits, its separator and its case; the    *)
(* group names posted here hold no "/", so NewGroup leaves them alone.     *)

MaxFlat == 2
MACText(hex, sep, upper) == [hex |-> hex, sep |-> sep, upper |-> upper]
NoMACText == MACText("", "-", TRUE)
NoGroup == <<>>

(* models.NewMAC: ":" becomes "-", the letters upper case. *)
NewMAC(mac) == IF mac.hex = "" THEN mac ELSE [mac EXCEPT !.sep = "-", !.upper = TRUE]

FlatGroupMAC(group, mac, name) == [Group |-> group, MAC |-> mac, Name |-> name]
NamedMAC(f) == [MAC |-> f.MAC, Name |-> f.Name]
namedMACs(flat) == [i \in DOMAIN flat |-> NamedMAC(flat[i])]

(* yaml.Marshal and yaml.Unmarshal of GroupMACsConfig: the keys groups and *)
(* unusedMACs, every entry its mac and its name as plain strings           *)
(* (NamedMAC.MAC is a string, so MAC.UnmarshalText is not called).         *)
yamlNamed(n) == [mac |-> n.MAC, name |-> n.Name]
yamlGroupMACs(gc) ==
    [groups |-> [g \in DOMAIN gc.Groups |->
                    [i \in DOMAIN gc.Groups[g] |-> yamlNamed(gc.Groups[g][i])]],
     unusedMACs |-> [i \in DOMAIN gc.UnusedMACs |-> yamlNamed(gc.UnusedMACs[i])]]
parseNamed(y) == [MAC |-> y.mac, Name |-> y.name]
parseGroupMACs(y) ==
    [Groups |-> [g \in DOMAIN y.groups |->
                    [i \in DOMAIN y.groups[g] |-> parseNamed(y.groups[g][i])]],
     UnusedMACs |-> [i \in DOMAIN y.unusedMACs |-> parseNamed(y.unusedMACs[i])]]

(* SaveGroupMACs: the entries with a group and a MAC go to their group, in *)
(* the order posted; those with a MAC only are collected in unusedMACs;    *)
(* what is marshalled is GroupMACsConfig{Groups: groups}.                  *)
grouped(flat) == SelectSeq(flat, LAMBDA f : f.Group # NoGroup /\ f.MAC # NoMACText)
unused(flat) == SelectSeq(flat, LAMBDA f : f.Group = NoGroup /\ f.MAC # NoMACText)
savedGroups(flat) ==
    [g \in {grouped(flat)[i].Group : i \in DOMAIN grouped(flat)} |->
        namedMACs(SelectSeq(grouped(flat), LAMBDA f : f.Group = g))]
SaveGroupMACs(flat) == yamlGroupMACs([Groups |-> savedGroups(flat), UnusedMACs |-> <<>>])

(* groupMACs.GetConfig of a file that is there. *)
groupMACsGetConfig(f) == parseGroupMACs(f.blocks[1])

FlatEntries ==
    {FlatGroupMAC(g, m, n) :
        g \in {NoGroup, GroupG},
        m \in {MACText("aabbccddeeff", ":", FALSE), MACText("001122334455", "-", TRUE),
               NoMACText},
        n \in {"", "tv"}}
FlatLists == UNION {[1..n -> FlatEntries] : n \in 0..MaxFlat}

InitGroupMacs ==
    /\ now = Epoch + 15 * Hour + 12 * Minute
    /\ ticks = 0
    /\ cfgTrackerDefaults \in {c \in TrackerDefaults : c.Retention = 1 * Hour}
    /\ samplesFile = NoFile
    /\ cfgFile = NewTracker(NoFile, samplesFile).cfgFile
    /\ cfgGroups = NewTracker(NoFile, samplesFile).cfgGroups
    /\ devices = NewTracker(NoFile, samplesFile).devices
    /\ last = NoOp
    /\ InitNet
    /\ window = NoWindow
    /\ disk = NewDisk
    /\ calls = NoCalls

groupMacsFrame ==
    UNCHANGED <<now, ticks, cfgTrackerDefaults, cfgGroups, devices, samplesFile, cfgFile,
                netVars, window, calls>>

(* POST /group-macs: the list is saved. *)
DoSaveGroupMACs(flat) ==
    /\ disk' = [disk EXCEPT !.target[defaultGroupMacFilePath] =
                                Holding(<<SaveGroupMACs(flat)>>)]
    /\ last' = Op("SaveGroupMACs", flat, FALSE, FALSE, FALSE)
    /\ groupMacsFrame

(* The file is loaded: last.id stays the list it was saved from. *)
DoGetGroupMACs ==
    /\ disk.target[defaultGroupMacFilePath].exists
    /\ last' = OpOn("GetConfig", last.id, FALSE, FALSE, FALSE,
                    groupMACsGetConfig(disk.target[defaultGroupMacFilePath]))
    /\ UNCHANGED disk
    /\ groupMacsFrame

NextGroupMacs ==
    \/ \E flat \in FlatLists : DoSaveGroupMACs(flat)
    \/ DoGetGroupMACs

SpecGroupMacs == InitGroupMacs /\ [][NextGroupMacs]_vars

----------------------------------------------------------------------------
(* The tracker under concurrent callers (src/usage/tracker.go and          *)
(* config.SetConfig in src/unnamed/part_001): AddSample on the packet      *)
(* path, SetMode and SetConfig on the admin path, each a goroutine of its  *)
(* own, all on the same group.  A step is what a caller does between two   *)
(* acquisitions of a mutex; a caller that finds the mutex held waits.      *)

(* AddSample: t.mu.Lock, the config of the group, LoadOrStore; dd.mu.Lock; *)
(* if the sample size or threshold changed, a new deviceData with the mode *)
(* of the old one is stored and its mutex locked; the sample; the deferred *)
(* unlocks.                                                                *)
AddSampleNext(c) ==
    LET me == "AddSample"
    IN  CASE c.pc[me] = "t.mu.Lock" ->
                 [c EXCEPT !.mu = me, !.dd[me] = c.stored, !.pc[me] = "dd.mu.Lock"]
          [] c.pc[me] = "dd.mu.Lock" ->
                 IF c.changed
                 THEN [c EXCEPT !.ddmu[c.dd[me]] = me,
                                !.made = @ + 1,
                                !.stored = c.made + 1,
                                !.mode[c.made + 1] = c.mode[c.dd[me]],
                                !.changed = FALSE,
                                !.pc[me] = "new dd.mu.Lock"]
                 ELSE [c EXCEPT !.ddmu[c.dd[me]] = me, !.pc[me] = "return"]
          [] c.pc[me] = "new dd.mu.Lock" ->
                 [c EXCEPT !.ddmu[c.stored] = me, !.pc[me] = "return"]
          [] OTHER ->
                 [c EXCEPT !.mu = "free",
                           !.ddmu = [i \in DOMAIN c.ddmu |->
                                        IF c.ddmu[i] = me THEN "free" ELSE c.ddmu[i]],
                           !.pc[me] = "idle"]

(* SetMode: devices.Load; dd.mu.Lock; the mode into dd.config and into the *)
(* group's entry of t.cfgGroups; t.SetConfig, which locks t.mu; the        *)
(* deferred unlocks.                                                       *)
SetModeNext(c) ==
    LET me == "SetMode"
    IN  CASE c.pc[me] = "devices.Load" ->
                 [c EXCEPT !.dd[me] = c.stored, !.pc[me] = "dd.mu.Lock"]
          [] c.pc[me] = "dd.mu.Lock" ->
                 [c EXCEPT !.ddmu[c.dd[me]] = me,
                           !.mode[c.dd[me]] = c.arg,
                           !.cfgMode = c.arg,
                           !.pc[me] = "t.mu.Lock"]
          [] c.pc[me] = "t.mu.Lock" ->
                 [c EXCEPT !.mu = me, !.pc[me] = "return"]
          [] OTHER ->
                 [c EXCEPT !.mu = "free", !.ddmu[c.dd[me]] = "free",
                           !.set = [done |-> TRUE, mode |-> c.arg],
                           !.pc[me] = "idle"]

(* Tracker.SetConfig from the web handler: t.mu.Lock, the new map becomes  *)
(* t.cfgGroups (it may ask for another retention or threshold), the file   *)
(* is written, t.mu.Unlock.                                                *)
SetConfigNext(c, changes) ==
    LET me == "SetConfig"
    IN  CASE c.pc[me] = "t.mu.Lock" ->
                 [c EXCEPT !.mu = me, !.changed = c.changed \/ changes,
                           !.pc[me] = "return"]
          [] OTHER -> [c EXCEPT !.mu = "free", !.pc[me] = "idle"]

(* The mutex a caller is about to lock. *)
wants(c, t) ==
    CASE c.pc[t] = "t.mu.Lock" -> c.mu
      [] c.pc[t] = "dd.mu.Lock" -> c.ddmu[c.dd[t]]
      [] c.pc[t] = "new dd.mu.Lock" -> c.ddmu[c.stored]
      [] OTHER -> "free"

InitCalls ==
    /\ now = Epoch + 15 * Hour + 12 * Minute
    /\ ticks = 0
    /\ cfgTrackerDefaults \in {c \in TrackerDefaults : c.Retention = 1 * Hour}
    /\ samplesFile = NoFile
    /\ cfgFile = NewTracker(NoFile, samplesFile).cfgFile
    /\ cfgGroups = NewTracker(NoFile, samplesFile).cfgGroups
    /\ devices = NewTracker(NoFile, samplesFile).devices
    /\ last = NoOp
    /\ InitNet
    /\ window = NoWindow
    /\ disk = NewDisk
    /\ calls = NoCalls

callsFrame == UNCHANGED <<now, ticks, trackerVars, netVars, window, disk>>

(* A caller enters its function. *)
CallAddSample ==
    /\ calls.pc["AddSample"] = "idle"
    /\ calls' = [calls EXCEPT !.pc["AddSample"] = "t.mu.Lock"]
    /\ callsFrame
CallSetMode(mode) ==
    /\ calls.pc["SetMode"] = "idle"
    /\ calls' = [calls EXCEPT !.pc["SetMode"] = "devices.Load", !.arg = mode]
    /\ callsFrame
CallSetConfig ==
    /\ calls.pc["SetConfig"] = "idle"
    /\ calls' = [calls EXCEPT !.pc["SetConfig"] = "t.mu.Lock"]
    /\ callsFrame

(* A caller takes its next step, if the mutex it is about to lock is free. *)
AddSampleSteps ==
    /\ calls.pc["AddSample"] # "idle"
    /\ wants(calls, "AddSample") = "free"
    /\ calls' = AddSampleNext(calls)
    /\ callsFrame
SetModeSteps ==
    /\ calls.pc["SetMode"] # "idle"
    /\ wants(calls, "SetMode") = "free"
    /\ calls' = SetModeNext(calls)
    /\ callsFrame
SetConfigSteps ==
    /\ calls.pc["SetConfig"] # "idle"
    /\ wants(calls, "SetConfig") = "free"
    /\ \E changes \in {FALSE, calls.made < MaxRebuilds} :
          calls' = SetConfigNext(calls, changes)
    /\ callsFrame

NextCalls ==
    \/ CallAddSample
    \/ \E mode \in {ModeMonitor, ModeAllow, ModeBlock} : CallSetMode(mode)
    \/ CallSetConfig
    \/ AddSampleSteps
    \/ SetModeSteps
    \/ SetConfigSteps

SpecCalls == InitCalls /\ [][NextCalls]_vars

(* The Go scheduler runs every goroutine that can run, and a sync.Mutex   *)
(* hands over to a waiter that has waited long (starvation mode): a caller *)
(* whose mutex is free again and again gets it.                            *)
FairCalls ==
    /\ SpecCalls
    /\ SF_vars(AddSampleSteps)
    /\ SF_vars(SetModeSteps)
    /\ SF_vars(SetConfigSteps)

----------------------------------------------------------------------------
(* Properties of the usage tracker. *)

(* The synced window as the specification words it: the samples are kept   *)
(* while 0 <= elapsed < SampleSize and are all false otherwise.            *)
InWindow(dd, t) ==
    /\ (t - dd.windowStartTime) \div dd.config.Granularity >= 0
    /\ (t - dd.windowStartTime) \div dd.config.Granularity < dd.config.SampleSize
SyncedCount(dd, t) == IF InWindow(dd, t) THEN Cardinality(dd.samples) ELSE 0
SamplesVerdict(dd, t) == SyncedCount(dd, t) * dd.config.Granularity >= dd.config.Threshold
ModeVerdict(dd, t) ==
    IF dd.config.Mode = ModeAllow /\ t < dd.config.ModeEndTime THEN FALSE
    ELSE IF dd.config.Mode = ModeBlock /\ t < dd.config.ModeEndTime THEN TRUE
    ELSE SamplesVerdict(dd, t)

(* C2: HasExceededThreshold returns false in an unexpired Allow mode, true *)
(* in an unexpired Block mode, and otherwise exactly whether the number of *)
(* true samples of the synced window times Granularity reaches Threshold.  *)
C2_HasExceededThreshold ==
    [][\A id \in TrackerIds :
          DoHasExceededThreshold(id) /\ id \in DOMAIN devices
              => last'.ret = ModeVerdict(devices[id], now)]_vars

(* C2 witness: a call answered false in an unexpired Allow mode although   *)
(* the samples of the window reach the threshold.                          *)
C2_Witness ==
    /\ last.op = "HasExceededThreshold" /\ last.ret = FALSE
    /\ last.id \in DOMAIN devices
    /\ devices[last.id].config.Mode = ModeAllow
    /\ now < devices[last.id].config.ModeEndTime
    /\ SamplesVerdict(devices[last.id], now)

Expired(dd, t) == dd.config.Mode \in {ModeAllow, ModeBlock} /\ dd.config.ModeEndTime < t

(* C9: with Allow or Block expired, AddSample(group, true) returns the     *)
(* group to Monitor, and a HasExceededThreshold on a group whose mode is   *)
(* Monitor or expired answers from the samples alone.                      *)
C9_ExpiredModeReverts ==
    [][\A id \in TrackerIds :
          /\ (DoAddSample(id, TRUE) /\ id \in DOMAIN devices /\ Expired(devices[id], now)
                 => devices'[id].config.Mode = ModeMonitor)
          /\ (DoHasExceededThreshold(id) /\ id \in DOMAIN devices
              /\ (devices[id].config.Mode = ModeMonitor \/ Expired(devices[id], now))
                 => last'.ret = SamplesVerdict(devices[id], now))]_vars

(* C9 witness: an AddSample(true) has just taken a group whose Block or    *)
(* Allow had run out back to Monitor.                                      *)
C9_Witness ==
    /\ last.op = "AddSample" /\ last.active
    /\ last.id \in DOMAIN devices
    /\ last.was = ModeBlock
    /\ devices[last.id].config.Mode = ModeMonitor
    /\ devices[last.id].config.ModeEndTime < now

(* An unexpired Allow or Block answers HasExceededThreshold by itself. *)
Overridden(dd, t) == dd.config.Mode \in {ModeAllow, ModeBlock} /\ t < dd.config.ModeEndTime
HoldsNow(dd, t) ==
    /\ dd.windowStartTime <= t
    /\ t < dd.windowStartTime + dd.config.Retention

(* C6: an operation that syncs the window later than windowStartTime +     *)
(* Retention leaves no sample but the one it records, leaves               *)
(* windowStartTime at the start of the window that holds now, and a        *)
(* HasExceededThreshold right after it in Monitor mode returns false.      *)
C6_WindowRollOver ==
    [][\A id \in TrackerIds :
          /\ id \in DOMAIN devices
          /\ now > devices[id].windowStartTime + devices[id].config.Retention
          /\ \/ DoAddSample(id, TRUE) /\ devices[id].config.Mode = ModeMonitor
             \/ DoHasExceededThreshold(id) /\ ~Overridden(devices[id], now)
          => /\ devices'[id].samples
                    \subseteq {getIndex(devices'[id].config, now, devices'[id].windowStartTime)}
             /\ HoldsNow(devices'[id], now)
             /\ (devices'[id].config.Mode = ModeMonitor
                    => ~HasExceededThreshold(devices', id, now).ret)]_vars

(* C7: after every AddSample that records a sample and every               *)
(* HasExceededThreshold that counts samples, the device holds at most      *)
(* SampleSize samples and windowStartTime <= now < windowStartTime +       *)
(* Retention.                                                              *)
C7_WindowHoldsNow ==
    /\ last.id \in DOMAIN devices
    /\ \/ last.op = "AddSample" /\ last.active /\ last.was = ModeMonitor
       \/ last.op = "HasExceededThreshold" /\ ~Overridden(devices[last.id], now)
    => /\ Cardinality(devices[last.id].samples) <= devices[last.id].config.SampleSize
       /\ HoldsNow(devices[last.id], now)

----------------------------------------------------------------------------
(* Properties of the packet filter. *)

(* The pair of a packet as the manager sees it, and the groups it matches. *)
Known(p) ==
    /\ p.len >= 20
    /\ dstIpOf(p) \in DOMAIN destIpGroups
    /\ managerModeMatchAllSourceIps \/ srcIpOf(p) \in DOMAIN sourceIpGroups
Matches(p, g) ==
    /\ Known(p)
    /\ IF managerModeMatchAllSourceIps
       THEN \E i \in 1..Len(destIpGroups[dstIpOf(p)]) :
                g = <<srcIpOf(p)>> \o destIpGroups[dstIpOf(p)][i]
       ELSE \E i \in 1..Len(sourceIpGroups[srcIpOf(p)]) :
                sourceIpGroups[srcIpOf(p)][i] = g

(* Ten minute buckets of the window that holds t are recorded for g, with  *)
(* Retention 1 h, Granularity 1 min, Threshold 10 min, in Monitor mode.    *)
TenRecorded(devs, g, t) ==
    /\ g \in DOMAIN devs
    /\ devs[g].config.Retention = 1 * Hour
    /\ devs[g].config.Granularity = 1 * Minute
    /\ devs[g].config.Threshold = 10 * Minute
    /\ devs[g].config.Mode = ModeMonitor
    /\ HoldsNow(devs[g], t)
    /\ Cardinality(devs[g].samples) >= 10

ExceededFor(outcome, g) ==
    \E i \in 1..Len(outcome.decisions) :
        outcome.decisions[i].group = g /\ outcome.decisions[i].exceeded

(* C1: once ten minute buckets of the current window are recorded for a    *)
(* group in Monitor mode, HasExceededThreshold is true for it and a packet *)
(* that classifies into it with p_drop = 1.0 gets the verdict drop.        *)
C1_DropOverThreshold ==
    [][\A g \in Groups :
          /\ last'.op = "fnPacketHandler"
          /\ Matches(pkt'.packet, g)
          /\ TenRecorded(devices, g, now)
          /\ filterCfg.PacketDropPercentage = 100
          => ExceededFor(pkt', g) /\ pkt'.verdict = NfDrop]_vars

(* C1 witness: a TCP packet of group G dropped with p_drop = 1.0, the      *)
(* group in Monitor mode with ten buckets recorded before the packet came  *)
(* (the packet itself was not counted active, so it recorded none).        *)
C1_Witness ==
    /\ last.op = "fnPacketHandler" /\ pkt.handled
    /\ pkt.packet.proto = "TCP"
    /\ filterCfg.PacketDropPercentage = 100
    /\ Matches(pkt.packet, GroupG)
    /\ TenRecorded(devices, GroupG, now)
    /\ \E i \in 1..Len(pkt.decisions) :
          /\ pkt.decisions[i].group = GroupG
          /\ ~pkt.decisions[i].active
          /\ pkt.decisions[i].exceeded
    /\ pkt.verdict = NfDrop

(* C3: a packet whose pair the manager does not know is accepted, and      *)
(* neither the monitor nor the tracker changes.                            *)
C3_UnknownPairAccepted ==
    [][last'.op = "fnPacketHandler" /\ pkt'.packet.len >= 20 /\ ~Known(pkt'.packet)
          => /\ pkt'.verdict = NfAccept
             /\ trafficMap' = trafficMap
             /\ devices' = devices
             /\ cfgGroups' = cfgGroups]_vars

(* C3 witness: a packet to a destination nobody registered has been        *)
(* accepted while the tracker holds a group that is over its threshold.    *)
C3_Witness ==
    /\ last.op = "fnPacketHandler" /\ pkt.handled
    /\ pkt.packet.len >= 20 /\ ~Known(pkt.packet)
    /\ ~managerModeMatchAllSourceIps
    /\ srcIpOf(pkt.packet) \in DOMAIN sourceIpGroups
    /\ TenRecorded(devices, GroupG, now)
    /\ pkt.verdict = NfAccept

Decided(outcome) == {outcome.decisions[i].decision : i \in 1..Len(outcome.decisions)}

(* C4: the verdict is the most restrictive of the per-group decisions: the *)
(* packet is dropped exactly if some matched group decides drop, and it is *)
(* delayed at most once if the strongest decision is delay.                *)
C4_MostRestrictive ==
    pkt.handled
        => /\ (pkt.verdict = NfDrop <=> "drop" \in Decided(pkt))
           /\ ("drop" \notin Decided(pkt) /\ "delay" \in Decided(pkt) => pkt.sleeps <= 1)

(* C5: the verdict is accept or drop, and a delayed packet is released     *)
(* within delay + jitter of the start of its handling.                     *)
C5_VerdictAndDelayBound ==
    pkt.handled
        => /\ pkt.verdict \in {NfAccept, NfDrop}
           /\ (pkt.sleeps > 0
                  => pkt.slept <= filterCfg.PacketDelayMs + filterCfg.PacketJitterMs)

(* The most recent instant not later than t that falls on weekday sday at  *)
(* sdur past midnight UTC.                                                 *)
MostRecentStart(sday, sdur, t) ==
    CHOOSE x \in {Truncate(t, Day) + sdur - k * Day : k \in 0..7} :
        /\ Weekday(x - sdur) = sday
        /\ x <= t
        /\ t < x + Week

(* C8: for Retention >= 7 days calculateWindow returns as window start the *)
(* most recent instant not later than now on weekday StartDay at           *)
(* StartDuration past midnight UTC, and as next start the instant 7 days   *)
(* later.                                                                  *)
C8_WeeklyWindowStart ==
    window.done /\ cfgTrackerDefaults.Retention >= 7 * Day
        => /\ window.last = MostRecentStart(cfgTrackerDefaults.StartDayInt,
                                            cfgTrackerDefaults.StartDuration, now)
           /\ window.next = window.last + 7 * Day

(* What the first packet of a group meets after a restart: AddSample, then *)
(* HasExceededThreshold.                                                   *)
FirstSample(cg, devs, id, t) ==
    AddSample([cfgGroups |-> cg, devices |-> devs], id, FALSE, t).devices
FirstAnswer(cg, devs, id, t) ==
    HasExceededThreshold(FirstSample(cg, devs, id, t), id, t).ret

(* C10: a mode set by a successful SetMode is the group's mode after a     *)
(* restart before its ModeEndTime: HasExceededThreshold is then false for  *)
(* Allow and true for Block, and a resumed group stays resumed, whenever   *)
(* the samples file was last saved.                                        *)
C10_ModeSurvivesRestart ==
    [][\A id \in TrackerIds :
          /\ last'.op = "NewTracker"
          /\ id \in DOMAIN cfgGroups
          => /\ (cfgGroups[id].Mode \in {ModeAllow, ModeBlock}
                 /\ now < cfgGroups[id].ModeEndTime
                    => FirstAnswer(cfgGroups', devices', id, now)
                           = (cfgGroups[id].Mode = ModeBlock))
             /\ (cfgGroups[id].Mode = ModeMonitor
                    => ~Overridden(FirstSample(cfgGroups', devices', id, now)[id], now))]_vars

(* C11: an AddSample that finds the buffer built with another sample size  *)
(* or threshold than the group's config leaves a buffer of the config's    *)
(* size and threshold that holds no earlier sample (at most the one this   *)
(* call records), with the ModeEndTime the group had and with the Mode it  *)
(* had, which the same call turns into Monitor only if it had expired.     *)
C11_RebuildKeepsMode ==
    [][\A id \in TrackerIds :
          /\ last'.op = "AddSample" /\ last'.id = id
          /\ needsRebuild(cfgGroups, devices, id)
          => /\ devices'[id].config.SampleSize = groupConfig(cfgGroups, id).SampleSize
             /\ devices'[id].config.Threshold = groupConfig(cfgGroups, id).Threshold
             /\ devices'[id].samples \subseteq
                    (IF last'.active /\ devices[id].config.Mode = ModeMonitor
                     THEN {getIndex(devices'[id].config, now, devices'[id].windowStartTime)}
                     ELSE {})
             /\ devices'[id].config.ModeEndTime = devices[id].config.ModeEndTime
             /\ devices'[id].config.Mode =
                    (IF Expired(devices[id], now) THEN ModeMonitor
                     ELSE devices[id].config.Mode)]_vars

(* C11 witness: a group that held samples and an unexpired Block had its   *)
(* buffer rebuilt and is still blocked, with no sample left.               *)
C11_Witness ==
    /\ last.op = "AddSample" /\ last.rebuilt /\ last.was = ModeBlock
    /\ devices[last.id].config.Mode = ModeBlock
    /\ now < devices[last.id].config.ModeEndTime
    /\ devices[last.id].samples = {}
    /\ samplesFile.exists

(* The activity rule for the bytes of one minute. *)
activityRule(bytes) ==
    IF EnableThresholdLogic
    THEN bytes[Ingress] >= ThresholdIngressEgressKB /\ bytes[Ingress] > bytes[Egress]
    ELSE bytes[Ingress] > 0 \/ bytes[Egress] > 0

(* C12: a CountTraffic in minute m for a key that existed in minute m - 1  *)
(* returns whether the traffic counted for that key in minute m - 1 met    *)
(* the activity rule.                                                      *)
C12_LastMinuteVerdict ==
    [][/\ last'.op = "CountTraffic"
       /\ last'.id \in DOMAIN history
       /\ history[last'.id].created < MinuteOf(now)
       => last'.ret = activityRule(bytesIn(history[last'.id], MinuteOf(now) - 1))]_vars

(* The MAC a traffic map key was made for: its last part. *)
MACOfKey(key) == key[Len(key)]
Stale(key) ==
    /\ \A ip \in DOMAIN ipMACs : ipMACs[ip] # MACOfKey(key)
    /\ trafficMap[key].lastActiveTimeUTC < now - PurgeStatsAfterDuration

(* C13: when UpdateSourceIpMACs has returned, the traffic map holds no key *)
(* whose MAC is absent from the new data and whose lastActiveTimeUTC is    *)
(* before now - PurgeStatsAfterDuration.                                   *)
C13_NoStaleKeyAfterUpdate ==
    last.op = "UpdateSourceIpMACs" => \A key \in DOMAIN trafficMap : ~Stale(key)

NftUpdates == {"UpdateDestIpDomains", "UpdateSourceIpGroups"}
IPv4Of(addrs) == addrs \ IPv6Addrs

(* C14 as stated: after each update the kernel set it is for holds exactly *)
(* the elements of the snapshot just received.                             *)
C14_SetHoldsLatestSnapshot ==
    /\ last.op = "UpdateDestIpDomains" => kernel.setRemote = last.id
    /\ last.op = "UpdateSourceIpGroups" => kernel.setLocal = last.id

(* C14 amended: an update saves the IPv4 addresses of its snapshot as the  *)
(* latest list and leaves the other list alone; if both latest lists are   *)
(* non-empty and the kernel takes the batch, each kernel set then holds    *)
(* exactly its latest list, with no element of an earlier snapshot;        *)
(* otherwise both kernel sets are as they were.                            *)
C14_SetsHoldLatestLists ==
    [][last'.op \in NftUpdates
       => /\ (last'.op = "UpdateDestIpDomains"
                 => rules'.remoteIPs = IPv4Of(last'.id) /\ rules'.localIPs = rules.localIPs)
          /\ (last'.op = "UpdateSourceIpGroups"
                 => rules'.localIPs = IPv4Of(last'.id) /\ rules'.remoteIPs = rules.remoteIPs)
          /\ IF rules'.localIPs # {} /\ rules'.remoteIPs # {} /\ kernel.healthy
             THEN kernel'.setLocal = rules'.localIPs /\ kernel'.setRemote = rules'.remoteIPs
             ELSE kernel' = kernel]_vars

(* C14 witness: the remote set held another address and holds exactly the  *)
(* one address of the snapshot just received.                              *)
C14_Witness ==
    /\ last.op = "UpdateDestIpDomains" /\ ~last.err
    /\ last.was = {"K"}
    /\ last.id = {"L"}
    /\ kernel.setRemote = {"L"}

----------------------------------------------------------------------------
(* C16: during shutdown a queue handle is closed only when the kernel      *)
(* table with its queue rules has been removed: every step that closes a   *)
(* handle starts in a state where the table is gone, whichever cleanup     *)
(* function failed before.                                                 *)
C16_CloseAfterRulesRemoved ==
    [][\A d \in Directions :
          proc.nfq[d] = "open" /\ proc'.nfq[d] = "closed" => ~kernel.table]_vars

(* C16 witness: the second handle has just been closed, after a Clean that *)
(* removed the table; a packet the kernel had queued was never taken.      *)
C16_Witness ==
    /\ last.op = "nf.Close" /\ last.was = Ingress
    /\ \A d \in Directions : proc.nfq[d] = "closed"
    /\ ~kernel.table
    /\ \E d \in Directions : proc.pending[d] # <<>>

(* C17: on a shutdown signal the context is cancelled, then the kernel     *)
(* rules are removed, then the queue handles are closed, then the periodic *)
(* tasks stop, then the samples file is flushed with the samples recorded  *)
(* so far, and only then the DHCP supervisor is stopped: whatever step has *)
(* been taken, the steps before it have been taken.                        *)
C17_ShutdownOrder ==
    /\ (proc.pc # "running" /\ ~kernel.table => proc.cancelled)
    /\ ((\E d \in Directions : proc.nfq[d] = "closed") => ~kernel.table)
    /\ (proc.saver = "stopped" => \A d \in Directions : proc.nfq[d] = "closed")
    /\ (proc.dhcp = "stopped"
           => /\ proc.saver = "stopped"
              /\ samplesFile = saveSamples(devices))

(* The place of a packet in the order in which its queue's loop took the   *)
(* packets, and whether the packet has been given a verdict.               *)
DequeuePos(d, id) ==
    CHOOSE i \in 1..Len(proc.dequeued[d]) : proc.dequeued[d][i] = id
HasVerdict(d, id) ==
    \E i \in 1..Len(proc.verdicts[d]) : proc.verdicts[d][i].id = id
Waiting(d, id) ==
    \/ \E i \in 1..Len(proc.pending[d]) : proc.pending[d][i].id = id
    \/ \E c \in proc.cur[d] : c.id = id

(* C18: a panic of the handler is recovered and logged, the queue keeps    *)
(* running (the process and the handle stay as they were and the handler   *)
(* holds no packet), and every packet that waits after a panic is handled: *)
(* it is given a verdict, unless its own handler panics (and is recovered) *)
(* or the context is cancelled.                                            *)
C18_PanicRecovered ==
    /\ [][last'.op \in {"fnPacketHandler", "SetVerdict"} /\ last'.err
             => /\ proc'.recovered = proc.recovered + 1
                /\ proc'.pc = proc.pc
                /\ proc'.nfq = proc.nfq
                /\ proc'.cur[last'.id[1]] = {}]_vars
    /\ \A d \in Directions : \A id \in 1..MaxPackets :
          (proc.recovered > 0 /\ Waiting(d, id))
              ~> (HasVerdict(d, id) \/ id \in proc.crashed \/ proc.cancelled)

(* C18 witness: a packet has its verdict although the handler of a packet  *)
(* taken before it from the same queue panicked.                           *)
C18_Witness ==
    \E d \in Directions : \E i, j \in 1..Len(proc.dequeued[d]) :
        /\ i < j
        /\ proc.dequeued[d][i] \in proc.crashed
        /\ HasVerdict(d, proc.dequeued[d][j])
        /\ proc.recovered > 0
        /\ ~proc.cancelled

(* C19: for each queue the verdicts are set in the order in which the      *)
(* packets were taken, and no packet has its verdict while a packet taken  *)
(* before it is still held (delayed) by the handler.                       *)
C19_VerdictsInDequeueOrder ==
    \A d \in Directions :
        /\ \A i, j \in 1..Len(proc.verdicts[d]) :
              i < j => DequeuePos(d, proc.verdicts[d][i].id)
                           < DequeuePos(d, proc.verdicts[d][j].id)
        /\ \A c \in proc.cur[d] : \A i \in 1..Len(proc.verdicts[d]) :
              DequeuePos(d, proc.verdicts[d][i].id) < DequeuePos(d, c.id)

(* C19 witness: two verdicts on one queue, the first for a packet that was *)
(* delayed while the second waited in the queue.                           *)
C19_Witness ==
    \E d \in Directions :
        /\ Len(proc.verdicts[d]) >= 2
        /\ proc.verdicts[d][1].slept > 0
        /\ proc.verdicts[d][1].id < proc.verdicts[d][2].id

(* C20: a scan that finds the group-macs file missing or malformed puts   *)
(* the watcher in match-all mode: every ip of its ARP output is published  *)
(* under exactly the group default, and a packet from such an ip to a      *)
(* resolved destination gets one group's decision and is counted by the    *)
(* monitor and the tracker.                                                *)
CountedOnce(outcome) ==
    /\ Len(outcome.decisions) = 1
    /\ outcome.decisions[1].group \in DOMAIN devices
    /\ getTrafficMapKey(outcome.decisions[1].group, ipMACs[srcIpOf(outcome.packet)])
           \in DOMAIN trafficMap
FromScannedIp(outcome) ==
    /\ last.op = "fnPacketHandler"
    /\ srcIpOf(outcome.packet) \in watcher.scanned.ips
    /\ dstIpOf(outcome.packet) \in DOMAIN destIpGroups
C20_MatchAllWithoutGroupMacs ==
    watcher.scanned.file \in {"missing", "malformed"}
        => /\ managerModeMatchAllSourceIps
           /\ \A ip \in watcher.scanned.ips :
                 ip \in DOMAIN sourceIpGroups /\ sourceIpGroups[ip] = <<defaultGroupName>>
           /\ (FromScannedIp(pkt) => CountedOnce(pkt))

(* C21: two successive scans that read the same group-macs file and the    *)
(* same ARP output, both with match-all mode off, call the receivers of    *)
(* the IP->Groups map at most once between them, also when a MAC is in     *)
(* several groups.                                                         *)
SameScanInputs ==
    /\ last'.op = "scanNetworkAndNotify"
    /\ watcher.scanned.file # "none"
    /\ watcher'.scanned.file = watcher.scanned.file
    /\ watcher'.scanned.arp = watcher.scanned.arp
    /\ ~watcher.scanned.matchAll
    /\ ~watcher'.scanned.matchAll
C21_UnchangedScanPublishesOnce ==
    [][SameScanInputs
          => ~(watcher.scanned.groupsSent /\ watcher'.scanned.groupsSent)]_vars

(* C22: a scan whose ARP command fails calls no receiver, and leaves the   *)
(* snapshots of the group manager, the traffic monitor and the nft rules   *)
(* as they were.                                                           *)
ArpFailed ==
    /\ last'.op = "scanNetworkAndNotify"
    /\ ~watcher'.scanned.arp.ok
C22_ArpFailurePublishesNothing ==
    [][ArpFailed
          => /\ ~watcher'.scanned.groupsSent
             /\ ~watcher'.scanned.macsSent
             /\ sourceIpGroups' = sourceIpGroups
             /\ ipMACs' = ipMACs
             /\ rules' = rules
             /\ kernel' = kernel]_vars

(* C23: after each resolver tick the destination table handed to the       *)
(* receivers holds exactly the ips resolved in that tick: the rules' list  *)
(* of remote addresses and the manager's destination groups have no ip of  *)
(* an earlier tick that the current one did not resolve.                   *)
C23_TableIsLastResolution ==
    domainWatcher.resolves > 0
        => /\ DOMAIN domainWatcher.sent = DOMAIN domainWatcher.resolved
           /\ rules.remoteIPs = setElements(domainWatcher.resolved)
           /\ DOMAIN destIpGroups = DOMAIN domainWatcher.resolved

(* C24: with match-all mode off IsSrcDestIpKnown(src, dst) says known iff  *)
(* src is in the source snapshot and dst in the destination snapshot, and  *)
(* then returns src's groups; with match-all mode on it says known iff dst *)
(* is in the destination snapshot, and then returns the label src/g for    *)
(* each group g of dst, in the order of dst's groups.                      *)
AskedPair == last'.op = "IsSrcDestIpKnown"
KnownBothSides ==
    /\ last'.id[1] \in DOMAIN sourceIpGroups
    /\ last'.id[2] \in DOMAIN destIpGroups
SrcLabels ==
    [i \in 1..Len(destIpGroups[last'.id[2]]) |->
        <<last'.id[1]>> \o destIpGroups[last'.id[2]][i]]
C24_KnownPairAndGroups ==
    [][AskedPair
          => IF managerModeMatchAllSourceIps
             THEN /\ last'.ret <=> last'.id[2] \in DOMAIN destIpGroups
                  /\ last'.ret => last'.was = SrcLabels
             ELSE /\ last'.ret <=> KnownBothSides
                  /\ last'.ret => last'.was = sourceIpGroups[last'.id[1]]]_vars

(* C24 witness: in match-all mode a pair whose source is in no snapshot is *)
(* known by its destination of two groups, with two labels returned.       *)
C24_Witness ==
    /\ last.op = "IsSrcDestIpKnown"
    /\ managerModeMatchAllSourceIps
    /\ last.ret
    /\ last.id[1] \notin DOMAIN sourceIpGroups
    /\ Len(last.was) = 2
    /\ last.was[1] = <<last.id[1]>> \o GroupH

(* A step of the worker that reconciled with action pending and a probe    *)
(* that answered, seen from the state before it.                           *)
ReconciledPending ==
    /\ last'.op = "maybeStartOrStopDnsmasq"
    /\ server.cfg.needsAction
    /\ server'.did.probed
    /\ ~server'.did.probe.err
BothPresent == server'.did.probe.local /\ server'.did.probe.router
LocalOnly == server'.did.probe.local /\ ~server'.did.probe.router
LeftRunning ==
    /\ server'.did.stop = "not called"
    /\ server'.dnsmasq = server.dnsmasq
    /\ server'.dnsmasq = "active"

(* C25 as stated: a reconcile with action pending, the service desired off *)
(* and the probe answering stops the local service and gives Inactive when *)
(* local and peer are both present, leaves the local service running and   *)
(* gives WaitingToStop when only the local one is, and gives Inactive when *)
(* the local one is absent.                                                *)
C25_DesiredOffTransitions ==
    [][ReconciledPending /\ ~server.cfg.ServiceEnabled
          => IF BothPresent
             THEN /\ server'.did.stop # "not called"
                  /\ server'.dnsmasq = "inactive"
                  /\ server'.cfg.ServiceState = serviceStateInactive
             ELSE IF LocalOnly
             THEN LeftRunning /\ server'.cfg.ServiceState = serviceStateWaitingToStop
             ELSE server'.cfg.ServiceState = serviceStateInactive]_vars

(* C25 amended: as above, where with both present Stop is called, and the  *)
(* service is stopped, the static IP removed and the state Inactive if     *)
(* Stop succeeds; if Stop fails the state stays what it was and the error  *)
(* is returned.                                                            *)
StopSucceeded ==
    /\ server'.did.stop = "none"
    /\ server'.dnsmasq = "inactive"
    /\ ~server'.staticIP
    /\ server'.cfg.ServiceState = serviceStateInactive
    /\ ~server'.did.err
StopFailed ==
    /\ server'.did.stop \in StopFailures \ {"none"}
    /\ server'.dnsmasq = server.dnsmasq
    /\ server'.cfg.ServiceState = server.cfg.ServiceState
    /\ server'.did.err
C25_DesiredOffUnlessStopFails ==
    [][ReconciledPending /\ ~server.cfg.ServiceEnabled
          => IF BothPresent
             THEN StopSucceeded \/ StopFailed
             ELSE IF LocalOnly
             THEN LeftRunning /\ server'.cfg.ServiceState = serviceStateWaitingToStop
             ELSE server'.cfg.ServiceState = serviceStateInactive]_vars

(* C25 witness: a reconcile that found the service desired off and both    *)
(* servers present has stopped dnsmasq and reports Inactive.               *)
C25_Witness ==
    /\ server.did.ran /\ server.did.probed
    /\ server.did.from.needsAction /\ ~server.did.from.ServiceEnabled
    /\ server.did.probe = Probe(TRUE, TRUE, FALSE)
    /\ server.did.stop = "none"
    /\ server.dnsmasq = "inactive"
    /\ server.cfg.ServiceState = serviceStateInactive

(* C26: a reconcile with action pending, the service desired on and the    *)
(* probe answering calls startDnsmasq only if a restart is pending, and    *)
(* after a start that succeeded or no start the state is                   *)
(* ActiveRouterCanBeStopped if a peer answered and Active otherwise.       *)
StartedOrNotNeeded ==
    \/ server'.did.starts = <<>>
    \/ Len(server'.did.starts) = 1 /\ server'.did.starts[1].failed = "none"
C26_DesiredOnTransitions ==
    [][ReconciledPending /\ server.cfg.ServiceEnabled
          => /\ server'.did.starts # <<>> => server.cfg.needsRestart
             /\ StartedOrNotNeeded
                   => /\ server'.cfg.ServiceState
                            = IF server'.did.probe.router
                              THEN serviceStateActiveRouterCanBeStopped
                              ELSE serviceStateActive
                      /\ ~server'.did.err]_vars

(* C26 witness: a reconcile with no restart pending that started nothing   *)
(* and reports ActiveRouterCanBeStopped for a peer that answered.          *)
C26_Witness ==
    /\ server.did.ran /\ server.did.probed
    /\ server.did.from.needsAction /\ server.did.from.ServiceEnabled
    /\ ~server.did.from.needsRestart
    /\ server.did.probe.router /\ ~server.did.probe.err
    /\ server.did.starts = <<>>
    /\ server.cfg.ServiceState = serviceStateActiveRouterCanBeStopped

(* C27: once a reconcile with the service desired on and a peer answering  *)
(* has given ActiveRouterCanBeStopped, the next reconcile whose probe      *)
(* finds no peer gives Active without calling startDnsmasq.                *)
ReachedRouterCanBeStopped ==
    /\ server.did.ran
    /\ server.did.probe.router
    /\ server.cfg.ServiceEnabled
    /\ server.cfg.ServiceState = serviceStateActiveRouterCanBeStopped
PeerGone ==
    /\ last'.op = "maybeStartOrStopDnsmasq"
    /\ server'.did.probed
    /\ ~server'.did.probe.err
    /\ ~server'.did.probe.router
C27_PeerGoneActiveWithoutRestart ==
    [][(ReachedRouterCanBeStopped => server.cfg.needsAction)
       /\ (ReachedRouterCanBeStopped /\ last'.op = "maybeStartOrStopDnsmasq"
              => server'.did.probed)
       /\ (ReachedRouterCanBeStopped /\ PeerGone
              => /\ server'.cfg.ServiceState = serviceStateActive
                 /\ server'.did.starts = <<>>
                 /\ server'.dnsmasq = server.dnsmasq)]_vars

(* C27 witness: Active reached from ActiveRouterCanBeStopped by a          *)
(* reconcile that found the peer gone and started nothing.                 *)
C27_Witness ==
    /\ server.did.ran /\ server.did.probed
    /\ server.did.from.ServiceState = serviceStateActiveRouterCanBeStopped
    /\ server.did.from.ServiceEnabled
    /\ ~server.did.from.needsRestart
    /\ server.did.probe = Probe(TRUE, FALSE, FALSE)
    /\ server.did.starts = <<>>
    /\ server.cfg.ServiceState = serviceStateActive

(* C28: the transition table is evaluated at every reconcile, also after   *)
(* the supervisor has reached Active or Inactive: when the servers present *)
(* answer the probe and nothing that is started or stopped fails, the      *)
(* state after the reconcile is the one the table gives for the desired    *)
(* state and the servers present.                                          *)
TableState(enabled, probe) ==
    IF enabled THEN whenEnabled(probe)
    ELSE IF probe.local /\ ~probe.router THEN serviceStateWaitingToStop
    ELSE serviceStateInactive
NothingFailed ==
    /\ ~server'.did.probe.err
    /\ server'.did.stop \in {"not called", "none"}
    /\ \A i \in DOMAIN server'.did.starts : server'.did.starts[i].failed = "none"
C28_StateFollowsTable ==
    [][last'.op = "maybeStartOrStopDnsmasq" /\ NothingFailed
          /\ ~server.dnsMasqServiceDisabledForDebug
          => server'.cfg.ServiceState
                = TableState(server.cfg.ServiceEnabled, server'.did.probe)]_vars

(* A reconcile with action pending whose transition failed: the probe      *)
(* returned an error, or the start in the loop did.  The forced start, if  *)
(* there is one, is the last start of the reconcile.                       *)
TransitionFailed ==
    /\ last'.op = "maybeStartOrStopDnsmasq"
    /\ server.cfg.needsAction
    /\ server'.did.probed
    /\ \/ server'.did.probe.err
       \/ server'.did.starts # <<>> /\ server'.did.starts[1].failed # "none"
LoopStarts == IF server'.did.probe.err THEN 0 ELSE 1
ForcedOnce == Len(server'.did.starts) = LoopStarts + 1
ForcedFailed == server'.did.starts[Len(server'.did.starts)].failed # "none"
FailedCheckConfig ==
    /\ server'.cfg.ServiceState = serviceStateFailedCheckConfig
    /\ server'.did.err
    /\ server'.cfg.needsAction

(* C29 as stated: when the probe errors or dnsmasq fails to start, the     *)
(* reconcile makes its bounded attempts (numAttempts) and then one forced  *)
(* start; if that fails too the state is FailedCheckConfig with an error,  *)
(* and action stays pending, so that later ticks try again and give        *)
(* FailedCheckConfig for as long as the failure lasts.                     *)
C29_ForcedStartThenFailed ==
    [][TransitionFailed
          => /\ LoopStarts <= numAttempts
             /\ ForcedOnce
             /\ ForcedFailed => FailedCheckConfig]_vars

(* C29 amended: the forced start is made only when the service is desired  *)
(* on, and gives Active without an error when it succeeds; with the        *)
(* service desired off nothing is started and the state is                 *)
(* FailedCheckConfig with an error.                                        *)
C29_ForcedStartOnlyIfWanted ==
    [][TransitionFailed
          => /\ LoopStarts <= numAttempts
             /\ IF server.cfg.ServiceEnabled
                THEN /\ ForcedOnce
                     /\ IF ForcedFailed THEN FailedCheckConfig
                        ELSE /\ server'.cfg.ServiceState = serviceStateActive
                             /\ ~server'.did.err
                ELSE /\ server'.did.starts = <<>>
                     /\ FailedCheckConfig]_vars

(* C29 witness: a reconcile that started from FailedCheckConfig, met the   *)
(* probe's error again, forced a start that failed, and reports            *)
(* FailedCheckConfig again.                                                *)
C29_Witness ==
    /\ server.did.ran /\ server.did.probed
    /\ server.did.from.ServiceState = serviceStateFailedCheckConfig
    /\ server.did.from.ServiceEnabled
    /\ server.did.probe.err
    /\ Len(server.did.starts) = 1
    /\ server.did.starts[1].failed # "none"
    /\ server.did.err
    /\ server.cfg.ServiceState = serviceStateFailedCheckConfig

(* C30 as stated: a start of dnsmasq that fails at any step has removed    *)
(* the static IP from the interface when it returns its error, and a start *)
(* that succeeds leaves the static IP installed.                           *)
C30_FailedStartRemovesStaticIP ==
    /\ \A i \in DOMAIN server.did.starts :
          IF server.did.starts[i].failed = "none"
          THEN server.did.starts[i].staticIP
          ELSE ~server.did.starts[i].staticIP
    /\ server.did.starts # <<>>
          => server.staticIP = server.did.starts[Len(server.did.starts)].staticIP

(* C30 amended: a start that fails at any step calls unsetStaticIP before  *)
(* it returns its error, and the static IP is removed if the nmcli         *)
(* commands of unsetStaticIP succeed; a start that succeeds does not call  *)
(* it and leaves the static IP installed.                                  *)
C30_FailedStartUnsetsStaticIP ==
    /\ \A i \in DOMAIN server.did.starts :
          IF server.did.starts[i].failed = "none"
          THEN server.did.starts[i].staticIP /\ ~server.did.starts[i].unset
          ELSE /\ server.did.starts[i].err
               /\ server.did.starts[i].unset
               /\ server.did.starts[i].unsetOk => ~server.did.starts[i].staticIP
    /\ server.did.starts # <<>>
          => server.staticIP = server.did.starts[Len(server.did.starts)].staticIP

(* C30 witness: a start that had installed the static IP, failed at       *)
(* writing the config, and has removed the static IP again.                *)
C30_Witness ==
    /\ server.did.starts # <<>>
    /\ server.did.starts[1].failed = "writeDnsmasqConfig"
    /\ server.did.starts[1].unset
    /\ server.did.starts[1].unsetOk
    /\ ~server.did.starts[1].staticIP

(* C31: every persisted file (group-macs, tracker config, DHCP config,     *)
(* samples, dnsmasq config) holds, at every instant of a write and after a *)
(* write that stopped at any step, either the complete content it had      *)
(* before the write or the complete new content.                           *)
Written == disk.writer.path # "none"
C31_OldOrNewContent ==
    Written => \/ disk.target[disk.writer.path] = disk.writer.old
               \/ disk.target[disk.writer.path] = Holding(disk.writer.data)

(* C32: when a configuration file (tracker config, group-macs, DHCP        *)
(* config) is absent at startup and the filesystem takes the write, an     *)
(* empty file is created and the component starts with an empty or default *)
(* configuration: no error is returned and nothing crashes.                *)
StartedWithoutFile == disk.got.component # "none" /\ disk.got.absent /\ disk.got.createOk
C32_AbsentConfigFileIsCreated ==
    (StartedWithoutFile /\ disk.writes = 0)
        => /\ disk.target[configPath(disk.got.component)] = Holding(<<>>)
           /\ disk.got.outcome = "ok"

(* C33: what saveSamples wrote, loadSamples reads back as the devices held *)
(* in memory at the save: for every device the same config, the same       *)
(* samples and the same windowStartTime; an entry stored without a config  *)
(* is loaded with the global tracker defaults.                             *)
JustSaved == last.op = "saveSamples"
JustLoaded == last = NoOp /\ samplesFile.exists
canonical(named) == [i \in DOMAIN named |-> [named[i] EXCEPT !.MAC = NewMAC(@)]]
C34_GroupMACsRoundTrip ==
    last.op = "GetConfig"
        => /\ DOMAIN last.was.Groups = DOMAIN savedGroups(last.id)
           /\ \A g \in DOMAIN savedGroups(last.id) :
                 last.was.Groups[g] = canonical(savedGroups(last.id)[g])
           /\ last.was.UnusedMACs = canonical(namedMACs(unused(last.id)))

(* C35: concurrent calls of AddSample and of SetMode or SetConfig on the   *)
(* same tracker never deadlock: every call that was entered returns,       *)
(* whatever the order in which t.mu and the device mutex are acquired.     *)
C35_EveryCallReturns ==
    \A t \in Callers : (calls.pc[t] # "idle") ~> (calls.pc[t] = "idle")

(* C36: the DHCP worker never blocks on its own signal channel: whatever   *)
(* the order of ticks, restart signals and reconciles, the worker is never *)
(* stuck in the send of its ticker case.  (The worker is the only receiver *)
(* of chanWorker, so a worker that waits in that send waits for ever, and  *)
(* with it every later restart().)                                         *)
C36_WorkerNeverBlocks == server.worker # "blocked"

(* C37: every packet the handler was called for and has returned from has  *)
(* exactly one verdict, on every path through the handler (parse failure,  *)
(* unknown pair, known groups with or without a delay, a panic that is     *)
(* recovered), as long as the queue's handle is open.                      *)
HandlerReturned(d, id) ==
    /\ \E i \in 1..Len(proc.dequeued[d]) : proc.dequeued[d][i] = id
    /\ ~\E c \in proc.cur[d] : c.id = id
VerdictsOf(d, id) == {i \in 1..Len(proc.verdicts[d]) : proc.verdicts[d][i].id = id}
C37_ExactlyOneVerdict ==
    \A d \in Directions : \A id \in 1..MaxPackets :
        (proc.nfq[d] = "open" /\ HandlerReturned(d, id))
            => Cardinality(VerdictsOf(d, id)) = 1

(* C38: a SetMode that returned success is not lost to a concurrent        *)
(* AddSample that rebuilds the group's buffer: until SetMode is called     *)
(* again, the deviceData in t.devices, which GetModeEndTime and            *)
(* HasExceededThreshold read, holds the mode that was set.  (No mode       *)
(* expires within the calls modelled.)                                     *)
ModeWasSet == calls.set.done /\ calls.pc["SetMode"] = "idle"
C38_SetModeNotLost == ModeWasSet => calls.mode[calls.stored] = calls.set.mode

(* C39: UpdateSourceIpMACs never removes a traffic map entry whose MAC is  *)
(* in the new ip -> MAC snapshot, whatever the group name in its key, the  *)
(* names "<srcIp>/<destGroup>" of match-all mode included.                 *)
InSnapshot(key, newData) == \E ip \in DOMAIN newData : newData[ip] = MACOfKey(key)
C39_KnownMACsAreKept ==
    [][last'.op = "UpdateSourceIpMACs"
       => \A key \in DOMAIN trafficMap :
             InSnapshot(key, ipMACs') => key \in DOMAIN trafficMap']_vars


(* C40: whenever SetConfig returns an error, from validation or from the  *)
(* file write, the configuration in memory and the file on disk are both  *)
(* what they were before the call.                                        *)
C40_FailedSetConfigChangesNothing ==
    [][last'.op = "SetConfig" /\ last'.err
       => cfgGroups' = cfgGroups /\ cfgFile' = cfgFile]_vars

=============================================================================
